---- MODULE Spec2Model ----
(***************************************************************************)
(* The Network Allocation Index of nomad/structs/network.go: per-node      *)
(* used-port bitmaps, the process-wide bitmap pool, node initialisation,   *)
(* allocation intake and the offer engine.                                 *)
(*                                                                         *)
(* Bitmaps are heap objects: `bits` is the heap (bitmap id -> set of       *)
(* marked ports), an Index refers to bitmaps by id, and the pool is a bag  *)
(* of ids, so that two references to one bitmap are visible as such.       *)
(***************************************************************************)
EXTENDS Integers, Sequences, FiniteSets, Bags, TLC

VARIABLES
    idx,    \* idx[i]: the fields of NetworkIndex i
    bits,   \* the heap of bitmaps: bits[b] is the set of ports marked in bitmap b
    pool,   \* bitmapPool: the bag of bitmap ids that were Put and not yet taken
    last,   \* the last call: operation, receiver, arguments and results
    cycle,  \* per Index: where it stands in a SetNode / Release / SetNode round
    usedMap \* usedMap[i]: the identity of the Go map that idx[i].UsedPorts holds

vars == <<idx, bits, pool, last, cycle, usedMap>>

----------------------------------------------------------------------------
(* Program constants                                                       *)

DefaultMinDynamicPort == 20000
DefaultMaxDynamicPort == 32000
maxRandPortAttempts == 20
MaxValidPort == 65536

----------------------------------------------------------------------------
(* Bounds of the model                                                     *)

\* bitmaps ever allocated by NewBitmap
MaxBitmaps == 3
\* longest TaskNetworks list / HostNetworks address list an Index may grow to
MaxNets == 2
\* largest UsedBandwidth value of a device
MaxUsedMBits == 2
\* copies of one bitmap the pool keeps; a Put beyond that is dropped by the pool
MaxPoolCopies == 2
\* most ports a selector is asked for when it is called on its own
MaxCount == 2
\* the callbacks of one yieldIP call that are followed
MaxCalls == 4

\* the NetworkIndex objects: two placement attempts that share bitmapPool
Indexes == {1, 2}

\* the nil Bitmap
Nil == 0

IP1 == "10.0.0.1"
IP2 == "10.0.0.2"

----------------------------------------------------------------------------
(* Go maps: a function whose domain is the set of keys present             *)

EmptyMap == <<>>

MapPut(m, k, v) == (k :> v) @@ m

\* m[k] of a map of ints: the zero value when k is absent
MapInt(m, k) == IF k \in DOMAIN m THEN m[k] ELSE 0

\* m[k] of a map of slices: the nil slice when k is absent
MapSeq(m, k) == IF k \in DOMAIN m THEN m[k] ELSE <<>>

Range(s) == {s[k] : k \in DOMAIN s}

RECURSIVE SetToSortedSeq(_)
SetToSortedSeq(S) ==
    IF S = {} THEN <<>>
    ELSE LET m == CHOOSE x \in S : \A y \in S : x <= y
         IN  <<m>> \o SetToSortedSeq(S \ {m})

----------------------------------------------------------------------------
(* Bitmap (structs/bitmap.go): a set of port numbers                       *)

BitmapSet(b, p) == b \cup {p}

BitmapCheck(b, p) == p \in b

\* every index of [lo, hi] whose bit equals value, ascending
IndexesInRange(b, value, lo, hi) ==
    SetToSortedSeq({p \in lo..hi : (p \in b) = value})

----------------------------------------------------------------------------
(* Port-range strings.  A string is modelled as the sequence of its items, *)
(* each item <<lo, hi>> ("22" is <<22, 22>>); "" is the empty sequence.    *)

ParsePortRanges(str) ==
    IF \E k \in DOMAIN str :
          str[k][1] > str[k][2] \/ str[k][1] < 0 \/ str[k][2] >= MaxValidPort
    THEN [err |-> "invalid port range", ports |-> <<>>]
    ELSE [err |-> "",
          ports |-> SetToSortedSeq(UNION {str[k][1]..str[k][2] : k \in DOMAIN str})]

----------------------------------------------------------------------------
(* Inputs                                                                  *)

Port(label, value, to, hostNetwork) ==
    [Label |-> label, Value |-> value, To |-> to, HostNetwork |-> hostNetwork]

NetworkResource(device, cidr, ip, mbits, reserved, dynamic) ==
    [Device |-> device, CIDR |-> cidr, IP |-> ip, MBits |-> mbits,
     ReservedPorts |-> reserved, DynamicPorts |-> dynamic]

NodeNetworkAddress(alias, address, reservedPorts) ==
    [Alias |-> alias, Address |-> address, ReservedPorts |-> reservedPorts]

NilStruct == [isNil |-> TRUE]

\* a node with one task network, one host network "default" on IP1 and the
\* global reserved ports "22,20000"; dynamic ports 20000..20002
NodeA ==
    [Name |-> "A",
     NodeResources |->
        [isNil |-> FALSE,
         Networks |-> <<NetworkResource("eth0", "10.0.0.1/32", IP1, 1, <<>>, <<>>)>>,
         NodeNetworks |->
            << [Addresses |-> <<NodeNetworkAddress("default", IP1, <<>>)>>] >>,
         MinDynamicPort |-> 20000,
         MaxDynamicPort |-> 20002],
     Resources |-> NilStruct,
     ReservedResources |->
        [isNil |-> FALSE, ReservedHostPorts |-> << <<22, 22>>, <<20000, 20000>> >>],
     Reserved |-> NilStruct]

\* a multi-homed node: "default" has IP1 and IP2, "public" names IP1 again;
\* IP1 reserves "20000" itself; dynamic ports 20000..20001
NodeB ==
    [Name |-> "B",
     NodeResources |->
        [isNil |-> FALSE,
         Networks |-> <<>>,
         NodeNetworks |->
            << [Addresses |-> <<NodeNetworkAddress("default", IP1, << <<20000, 20000>> >>),
                                NodeNetworkAddress("default", IP2, <<>>)>>],
               [Addresses |-> <<NodeNetworkAddress("public", IP1, <<>>)>>] >>,
         MinDynamicPort |-> 20000,
         MaxDynamicPort |-> 20001],
     Resources |-> NilStruct,
     ReservedResources |-> [isNil |-> FALSE, ReservedHostPorts |-> <<>>],
     Reserved |-> NilStruct]

\* a node of the old layout: Resources.Networks and Reserved.Networks
NodeC ==
    [Name |-> "C",
     NodeResources |->
        [isNil |-> FALSE, Networks |-> <<>>, NodeNetworks |-> <<>>,
         MinDynamicPort |-> 0, MaxDynamicPort |-> 0],
     Resources |->
        [isNil |-> FALSE,
         Networks |-> <<NetworkResource("eth0", "10.0.0.2/32", IP2, 2, <<>>, <<>>),
                        NetworkResource("", "", IP1, 0, <<>>, <<>>)>>],
     ReservedResources |-> NilStruct,
     Reserved |->
        [isNil |-> FALSE,
         Networks |-> <<NetworkResource("eth0", "", IP2, 1,
                                        <<Port("ssh", 22, 0, "")>>, <<>>)>>]]

Nodes == {NodeA, NodeB, NodeC}

\* a node whose addresses reserve ports of their own next to the global
\* "22": "default" has IP1 with "80,443,20000-20001" and IP2 with "1-3";
\* dynamic ports 20000..20001, all of them reserved on IP1
NodeD ==
    [Name |-> "D",
     NodeResources |->
        [isNil |-> FALSE,
         Networks |-> <<>>,
         NodeNetworks |->
            << [Addresses |->
                  <<NodeNetworkAddress("default", IP1,
                                       << <<80, 80>>, <<443, 443>>, <<20000, 20001>> >>),
                    NodeNetworkAddress("default", IP2, << <<1, 3>> >>)>>] >>,
         MinDynamicPort |-> 20000,
         MaxDynamicPort |-> 20001],
     Resources |-> NilStruct,
     ReservedResources |-> [isNil |-> FALSE, ReservedHostPorts |-> << <<22, 22>> >>],
     Reserved |-> NilStruct]

\* a node of the old layout whose Reserved.Networks names port 65536
NodeE ==
    [Name |-> "E",
     NodeResources |->
        [isNil |-> FALSE, Networks |-> <<>>, NodeNetworks |-> <<>>,
         MinDynamicPort |-> 0, MaxDynamicPort |-> 0],
     Resources |->
        [isNil |-> FALSE,
         Networks |-> <<NetworkResource("eth0", "10.0.0.2/32", IP2, 2, <<>>, <<>>)>>],
     ReservedResources |-> NilStruct,
     Reserved |->
        [isNil |-> FALSE,
         Networks |-> <<NetworkResource("eth0", "", IP2, 1,
                                        <<Port("top", 65536, 0, "")>>, <<>>)>>]]

\* a node with ReservedHostPorts whose task networks are one with a device
\* on IP1 and one without a device on IP2; no node networks
NodeG ==
    [Name |-> "G",
     NodeResources |->
        [isNil |-> FALSE,
         Networks |-> <<NetworkResource("eth0", "10.0.0.1/32", IP1, 2, <<>>, <<>>),
                        NetworkResource("", "", IP2, 1, <<>>, <<>>)>>,
         NodeNetworks |-> <<>>,
         MinDynamicPort |-> 0,
         MaxDynamicPort |-> 0],
     Resources |-> NilStruct,
     ReservedResources |-> [isNil |-> FALSE, ReservedHostPorts |-> << <<22, 23>> >>],
     Reserved |-> NilStruct]

NodeNodes == {NodeD, NodeE, NodeG}

\* a node whose first task network has a CIDR that does not parse and whose
\* second has the two addresses 10.0.0.2 and 10.0.0.3; global reserved port 22
NodeT ==
    [Name |-> "T",
     NodeResources |->
        [isNil |-> FALSE,
         Networks |-> <<NetworkResource("br0", "10.0.0.2", IP2, 5, <<>>, <<>>),
                        NetworkResource("eth1", "10.0.0.2/31", IP2, 2, <<>>, <<>>)>>,
         NodeNetworks |-> <<>>,
         MinDynamicPort |-> 20000,
         MaxDynamicPort |-> 20002],
     Resources |-> NilStruct,
     ReservedResources |-> [isNil |-> FALSE, ReservedHostPorts |-> << <<22, 22>> >>],
     Reserved |-> NilStruct]

\* a node with the task networks eth0 on 10.0.0.1 alone and eth1 on 10.0.0.2
\* and 10.0.0.3
NodeU ==
    [Name |-> "U",
     NodeResources |->
        [isNil |-> FALSE,
         Networks |-> <<NetworkResource("eth0", "10.0.0.1/32", IP1, 1, <<>>, <<>>),
                        NetworkResource("eth1", "10.0.0.2/31", IP2, 2, <<>>, <<>>)>>,
         NodeNetworks |-> <<>>,
         MinDynamicPort |-> 20000,
         MaxDynamicPort |-> 20002],
     Resources |-> NilStruct,
     ReservedResources |-> [isNil |-> FALSE, ReservedHostPorts |-> << <<22, 22>> >>],
     Reserved |-> NilStruct]

TaskNodes == {NodeT, NodeU}

\* a node whose dynamic range is the single port 20000
NodeF ==
    [Name |-> "F",
     NodeResources |->
        [isNil |-> FALSE,
         Networks |-> <<>>,
         NodeNetworks |->
            << [Addresses |-> <<NodeNetworkAddress("default", IP1, <<>>)>>] >>,
         MinDynamicPort |-> 20000,
         MaxDynamicPort |-> 20000],
     Resources |-> NilStruct,
     ReservedResources |-> NilStruct,
     Reserved |-> NilStruct]

RangeNodes == {NodeF, NodeD}

AllNodes == Nodes \cup NodeNodes

NodeNamed(name) == CHOOSE n \in AllNodes : n.Name = name

AllocatedPortMapping(label, value, to, hostIP) ==
    [Label |-> label, Value |-> value, To |-> to, HostIP |-> hostIP]

Allocation(id, terminal, allocatedResources, taskResources) ==
    [ID |-> id, Terminal |-> terminal,
     AllocatedResources |-> allocatedResources, TaskResources |-> taskResources]

AllocatedResources(ports, networks, tasks) ==
    [isNil |-> FALSE, Shared |-> [Ports |-> ports, Networks |-> networks], Tasks |-> tasks]

TaskNets(name, networks) == [Name |-> name, Networks |-> networks]

\* Shared.Ports is populated: port 20001 on IP1
AllocPorts ==
    Allocation("a1", FALSE,
        AllocatedResources(<<AllocatedPortMapping("http", 20001, 0, IP1)>>, <<>>, <<>>),
        <<>>)

\* a group network (Shared.Networks) and a task with two networks
AllocGroup ==
    Allocation("a2", FALSE,
        AllocatedResources(<<>>,
            <<NetworkResource("", "", IP1, 0, <<Port("db", 80, 0, "")>>, <<>>)>>,
            <<TaskNets("web", <<NetworkResource("eth0", "", IP2, 1, <<>>,
                                                <<Port("rpc", 20001, 0, "")>>),
                                NetworkResource("eth0", "", IP2, 1,
                                                <<Port("x", 443, 0, "")>>, <<>>)>>),
              TaskNets("idle", <<>>)>>),
        <<>>)

\* no AllocatedResources: TaskResources only
AllocLegacy ==
    Allocation("a3", FALSE, NilStruct,
        <<TaskNets("web", <<NetworkResource("eth0", "", IP2, 1,
                                            <<Port("ssh", 22, 0, "")>>, <<>>)>>)>>)

\* a terminal allocation
AllocTerminal ==
    Allocation("a4", TRUE,
        AllocatedResources(<<AllocatedPortMapping("http", 20002, 0, IP1)>>, <<>>, <<>>),
        <<>>)

AllocLists ==
    { <<AllocPorts>>, <<AllocGroup>>, <<AllocLegacy>>, <<AllocTerminal, AllocPorts>> }

Ask(reserved, dynamic) == [ReservedPorts |-> reserved, DynamicPorts |-> dynamic]

Asks ==
    { \* a reserved and a dynamic port, both with to = -1
      Ask(<<Port("http", 80, -1, "default")>>, <<Port("api", 0, -1, "default")>>),
      \* two dynamic ports on one alias
      Ask(<<>>, <<Port("a", 0, -1, "default"), Port("b", 0, 8080, "default")>>),
      \* a reserved port on "public" and a dynamic port on "default"
      Ask(<<Port("admin", 20001, 0, "public")>>, <<Port("c", 0, 0, "default")>>),
      \* a reserved port in the dynamic range and a dynamic port, same alias
      Ask(<<Port("fixed", 20001, 9000, "default")>>, <<Port("d", 0, -1, "default")>>),
      \* an alias the node does not have
      Ask(<<>>, <<Port("g", 0, 0, "ghost")>>) }

\* the allocation that takes every dynamic port of NodeD on IP2
AllocFill ==
    Allocation("a5", FALSE,
        AllocatedResources(<<AllocatedPortMapping("u", 20000, 0, IP2),
                             AllocatedPortMapping("v", 20001, 0, IP2)>>, <<>>, <<>>),
        <<>>)

NodeAllocLists == { <<AllocFill>>, <<AllocPorts>> }

\* a terminal allocation with a port the node reserves and a free port
AllocTerminalClash ==
    Allocation("a7", TRUE,
        AllocatedResources(<<AllocatedPortMapping("ssh", 22, 0, IP1),
                             AllocatedPortMapping("http", 20002, 0, IP1)>>, <<>>, <<>>),
        <<>>)

\* Shared.Ports is populated, and so are Shared.Networks, Tasks and
\* TaskResources
AllocTwice ==
    Allocation("a8", FALSE,
        AllocatedResources(<<AllocatedPortMapping("http", 20001, 0, IP1),
                             AllocatedPortMapping("alt", 20002, 0, IP1)>>,
            <<NetworkResource("eth0", "", IP2, 1, <<Port("g", 8080, 0, "")>>, <<>>)>>,
            <<TaskNets("web", <<NetworkResource("eth0", "", IP2, 0,
                                                <<Port("t", 9090, 0, "")>>, <<>>)>>)>>),
        <<TaskNets("web", <<NetworkResource("eth0", "", IP2, 0,
                                            <<Port("o", 7070, 0, "")>>, <<>>)>>)>>)

\* a group network with a port out of range between two valid ones, and
\* two tasks that ask for the same port
AllocBad ==
    Allocation("a9", FALSE,
        AllocatedResources(<<>>,
            <<NetworkResource("eth0", "", IP1, 1,
                              <<Port("a", 80, 0, ""), Port("b", 65536, 0, ""),
                                Port("c", 81, 0, "")>>, <<>>)>>,
            <<TaskNets("x", <<NetworkResource("", "", IP1, 0,
                                              <<Port("p", 81, 0, "")>>, <<>>)>>),
              TaskNets("y", <<NetworkResource("", "", IP1, 0,
                                              <<Port("p", 81, 0, "")>>, <<>>)>>)>>),
        <<>>)

\* no AllocatedResources; a task with two networks and a task with none
AllocOld ==
    Allocation("a10", FALSE, NilStruct,
        <<TaskNets("web", <<NetworkResource("eth0", "", IP2, 0,
                                            <<Port("ssh", 22, 0, "")>>, <<>>),
                            NetworkResource("eth0", "", IP2, 1,
                                            <<Port("alt", 23, 0, "")>>, <<>>)>>),
          TaskNets("idle", <<>>)>>)

ClaimAllocLists ==
    { <<AllocTerminalClash, AllocPorts, AllocOld>>,
      <<AllocPorts, AllocTerminal, AllocTwice, AllocGroup>>,
      <<AllocBad, AllocOld>> }

\* Shared.Ports takes port 20000 on IP1
AllocSingle ==
    Allocation("a6", FALSE,
        AllocatedResources(<<AllocatedPortMapping("only", 20000, 0, IP1)>>, <<>>, <<>>),
        <<>>)

RangeAllocLists == { <<AllocSingle>>, <<AllocPorts>> }

\* task.resources.network asks: two dynamic ports, one of them with To -1;
\* a reserved port and a dynamic port with bandwidth 2; a reserved port out
\* of range; more bandwidth than any device has
TaskAsks ==
    { NetworkResource("", "", "", 0, <<>>,
                      <<Port("d", 0, -1, ""), Port("e", 0, 80, "")>>),
      NetworkResource("", "", "", 2, <<Port("ssh", 22, 0, "")>>,
                      <<Port("d", 0, 0, "")>>),
      NetworkResource("", "", "", 0, <<Port("top", 65536, 0, "")>>, <<>>),
      NetworkResource("", "", "", 3, <<>>, <<>>) }

RangeAsks ==
    { Ask(<<>>, <<Port("d", 0, 0, "default")>>),
      Ask(<<Port("r", 8080, 0, "default")>>, <<>>),
      Ask(<<Port("r", 20000, 0, "default")>>, <<Port("d", 0, 0, "default")>>) }

NodeAsks ==
    { Ask(<<>>, <<Port("a", 0, -1, "default")>>),
      Ask(<<Port("r", 8080, 0, "default")>>,
          <<Port("b", 0, 0, "default"), Port("c", 0, 0, "default")>>),
      Ask(<<>>, <<Port("g", 0, 0, "ghost")>>),
      \* the last dynamic port of NodeA as a reserved port, and a dynamic port
      \* on the same alias
      Ask(<<Port("p", 20002, 0, "default")>>, <<Port("e", 0, 0, "default")>>),
      \* a reserved port on "default" and a dynamic port on "public"
      Ask(<<Port("q", 20001, 0, "default")>>, <<Port("f", 0, 0, "public")>>),
      \* two reserved ports on one alias, and a dynamic port
      Ask(<<Port("h", 443, 0, "default"), Port("s", 22, 0, "default")>>,
          <<Port("t", 0, 0, "default")>>),
      \* a reserved port on an alias the node does not have, then one on "default"
      Ask(<<Port("x", 8080, 0, "ghost"), Port("y", 22, 0, "default")>>, <<>>) }

\* arguments of AddReserved: a reserved and a dynamic port; one port twice;
\* a port out of range between two valid ones
ReservedNets ==
    { NetworkResource("eth0", "", IP1, 1, <<Port("a", 80, 0, "")>>,
                      <<Port("b", 20001, 0, "")>>),
      NetworkResource("eth0", "", IP2, 0, <<Port("c", 80, 0, ""), Port("d", 80, 0, "")>>,
                      <<>>),
      NetworkResource("eth0", "", IP1, 1,
                      <<Port("e", 443, 0, ""), Port("f", 65536, 0, ""),
                        Port("g", 8080, 0, "")>>, <<>>) }

\* arguments of AddReservedPorts: ports on two IPs; one port twice; a
\* negative port between two valid ones
PortLists ==
    { <<AllocatedPortMapping("http", 80, 0, IP1),
        AllocatedPortMapping("https", 443, 0, IP2)>>,
      <<AllocatedPortMapping("x", 443, 0, IP1), AllocatedPortMapping("y", 443, 0, IP1)>>,
      <<AllocatedPortMapping("z", 20001, 0, IP2), AllocatedPortMapping("n", -1, 0, IP1),
        AllocatedPortMapping("w", 8080, 0, IP1)>> }

\* port arguments of AddReservedPortsForIP
PortNumberLists == { <<80, 443>>, <<8080, 8080>>, <<22, 65536, 23>> }


----------------------------------------------------------------------------
(* The state one handler works on: the receiver's fields, the heap and the *)
(* pool, and the handler's locals and results.                             *)

Ctx(i) ==
    [ix |-> idx[i], bits |-> bits, pool |-> pool,
     cur |-> Nil,            \* the bitmap getUsedPortsFor returned
     installs |-> <<>>,      \* the UsedPorts entries created by this call
     put |-> {},             \* the bitmaps handed to the pool by this call
     err |-> "",
     globalResPorts |-> <<>>,
     returned |-> FALSE,     \* the callee returned early
     c |-> FALSE, r |-> <<>>,            \* results of an AddReserved* call
     collide |-> FALSE, reason |-> "",   \* results of AddAllocs
     offer |-> <<>>, reservedIdx |-> EmptyMap]

\* NewBitmap(MaxValidPort): a fresh zeroed bitmap; used.Clear() on a pooled one
InstallEntry(h, ip, b, fromPool, newBits) ==
    [h EXCEPT !.ix.UsedPorts = MapPut(@, ip, b),
              !.bits = IF fromPool THEN [@ EXCEPT ![b] = newBits] ELSE Append(@, newBits),
              !.pool = IF fromPool THEN @ (-) SetToBag({b}) ELSE @,
              !.cur = b,
              !.installs = Append(@, [ip |-> ip, bitmap |-> b, fromPool |-> fromPool,
                                      released |-> IF fromPool THEN h.bits[b] ELSE {},
                                      installed |-> newBits])]

\* getUsedPortsFor without the Clear() of a bitmap that comes from the pool
getUsedPortsForNoClear(h, ip) ==
    IF ip \in DOMAIN h.ix.UsedPorts
    THEN {[h EXCEPT !.cur = h.ix.UsedPorts[ip]]}
    ELSE {InstallEntry(h, ip, b, TRUE, h.bits[b]) : b \in BagToSet(h.pool)}
         \cup (IF Len(h.bits) < MaxBitmaps
               THEN {InstallEntry(h, ip, Len(h.bits) + 1, FALSE, {})}
               ELSE {})

\* The possible outcomes of getUsedPortsFor(ip): bitmapPool.Get() returns any
\* pooled bitmap or nil, and on nil a new bitmap is allocated.
getUsedPortsFor(h, ip) ==
    IF ip \in DOMAIN h.ix.UsedPorts
    THEN {[h EXCEPT !.cur = h.ix.UsedPorts[ip]]}
    ELSE {InstallEntry(h, ip, b, TRUE, {}) : b \in BagToSet(h.pool)}
         \cup (IF Len(h.bits) < MaxBitmaps
               THEN {InstallEntry(h, ip, Len(h.bits) + 1, FALSE, {})}
               ELSE {})

\* used.Set(p) for each p of ports, on the bitmap h.cur
RECURSIVE SetAll(_, _)
SetAll(h, ports) ==
    IF ports = <<>> THEN h
    ELSE SetAll([h EXCEPT !.bits[h.cur] = BitmapSet(@, Head(ports))], Tail(ports))

----------------------------------------------------------------------------
(* SetNode                                                                 *)

\* the ports of one Reserved network, ReservedPorts then DynamicPorts
RECURSIVE setNodeLegacyPorts(_, _)
setNodeLegacyPorts(h, ports) ==
    IF ports = <<>> THEN h
    ELSE LET p == Head(ports) IN
         IF p.Value > MaxValidPort \/ p.Value < 0
         THEN [h EXCEPT !.err = "invalid port " \o ToString(p.Value) \o " for reserved_ports"]
         ELSE setNodeLegacyPorts(
                 [h EXCEPT !.globalResPorts = Append(@, p.Value),
                           !.bits[h.cur] = BitmapSet(@, p.Value)],
                 Tail(ports))

\* the loop over node.Reserved.Networks
RECURSIVE setNodeLegacy(_, _)
setNodeLegacy(h, nets) ==
    IF nets = <<>> \/ h.err # "" THEN {h}
    ELSE LET n == Head(nets) IN
         UNION { LET g1 == setNodeLegacyPorts(g, n.ReservedPorts \o n.DynamicPorts)
                     g2 == IF g1.err = "" /\ n.Device # ""
                           THEN [g1 EXCEPT !.ix.UsedBandwidth =
                                    MapPut(@, n.Device, MapInt(@, n.Device) + n.MBits)]
                           ELSE g1
                 IN  setNodeLegacy(g2, Tail(nets))
                 : g \in getUsedPortsFor(h, n.IP) }

\* setNodeGlobal that parses ReservedHostPorts and then drops the result
setNodeGlobalDropped(h, node) ==
    IF ~node.ReservedResources.isNil /\ node.ReservedResources.ReservedHostPorts # <<>>
    THEN LET r == ParsePortRanges(node.ReservedResources.ReservedHostPorts) IN
         IF r.err # ""
         THEN {[h EXCEPT !.err = "error parsing reserved_ports: " \o r.err]}
         ELSE {h}
    ELSE IF ~node.Reserved.isNil
    THEN setNodeLegacy(h, node.Reserved.Networks)
    ELSE {h}

\* globalResPorts, from ReservedHostPorts or else from Reserved.Networks
setNodeGlobal(h, node) ==
    IF ~node.ReservedResources.isNil /\ node.ReservedResources.ReservedHostPorts # <<>>
    THEN LET r == ParsePortRanges(node.ReservedResources.ReservedHostPorts) IN
         IF r.err # ""
         THEN {[h EXCEPT !.err = "error parsing reserved_ports: " \o r.err]}
         ELSE {[h EXCEPT !.globalResPorts = r.ports]}
    ELSE IF ~node.Reserved.isNil
    THEN setNodeLegacy(h, node.Reserved.Networks)
    ELSE {h}

\* the loop over taskNetworks without the look at the device
RECURSIVE setNodeTaskNetworksAll(_, _)
setNodeTaskNetworksAll(h, nets) ==
    IF nets = <<>> THEN {h}
    ELSE LET n == Head(nets) IN
         UNION { setNodeTaskNetworksAll(SetAll(g, g.globalResPorts), Tail(nets))
                 : g \in getUsedPortsFor(
                            [h EXCEPT !.ix.TaskNetworks = Append(@, n),
                                      !.ix.AvailBandwidth = MapPut(@, n.Device, n.MBits)],
                            n.IP) }

\* the loop over taskNetworks
RECURSIVE setNodeTaskNetworks(_, _)
setNodeTaskNetworks(h, nets) ==
    IF nets = <<>> THEN {h}
    ELSE LET n == Head(nets) IN
         IF n.Device # ""
         THEN UNION { setNodeTaskNetworks(SetAll(g, g.globalResPorts), Tail(nets))
                      : g \in getUsedPortsFor(
                                 [h EXCEPT !.ix.TaskNetworks = Append(@, n),
                                           !.ix.AvailBandwidth = MapPut(@, n.Device, n.MBits)],
                                 n.IP) }
         ELSE setNodeTaskNetworks(h, Tail(nets))

\* the loop over the addresses of the node networks
RECURSIVE setNodeAddresses(_, _)
setNodeAddresses(h, addrs) ==
    IF addrs = <<>> \/ h.err # "" THEN {h}
    ELSE LET a == Head(addrs)
             h1 == [h EXCEPT !.ix.HostNetworks =
                       MapPut(@, a.Alias, Append(MapSeq(@, a.Alias), a))]
         IN  UNION { LET g1 == SetAll(g, g.globalResPorts)
                         rp == ParsePortRanges(a.ReservedPorts)
                         g2 == IF a.ReservedPorts = <<>> THEN g1
                               ELSE IF rp.err # ""
                               THEN [g1 EXCEPT !.err = "error parsing reserved_ports for network "
                                                       \o a.Alias \o ": " \o rp.err]
                               ELSE SetAll(g1, rp.ports)
                     IN  setNodeAddresses(g2, Tail(addrs))
                     : g \in getUsedPortsFor(h1, a.Address) }

RECURSIVE Flatten(_)
Flatten(nodeNetworks) ==
    IF nodeNetworks = <<>> THEN <<>>
    ELSE Head(nodeNetworks).Addresses \o Flatten(Tail(nodeNetworks))

\* the dynamic port range of the node
setNodeDynamicRange(h, node) ==
    LET h1 == IF ~node.NodeResources.isNil /\ node.NodeResources.MinDynamicPort > 0
              THEN [h EXCEPT !.ix.MinDynamicPort = node.NodeResources.MinDynamicPort]
              ELSE h
    IN  IF ~node.NodeResources.isNil /\ node.NodeResources.MaxDynamicPort > 0
        THEN [h1 EXCEPT !.ix.MaxDynamicPort = node.NodeResources.MaxDynamicPort]
        ELSE h1

\* the possible outcomes of idx.SetNode(node)
SetNodeOutcomes(h, node) ==
    LET taskNetworks ==
            IF ~node.NodeResources.isNil /\ Len(node.NodeResources.Networks) # 0
            THEN node.NodeResources.Networks
            ELSE IF ~node.Resources.isNil THEN node.Resources.Networks
            ELSE <<>>
        nodeNetworks ==
            IF ~node.NodeResources.isNil /\ Len(node.NodeResources.NodeNetworks) # 0
            THEN node.NodeResources.NodeNetworks
            ELSE <<>>
    IN  UNION { IF g.err # "" THEN {g}
                ELSE UNION { { IF k.err # "" THEN k ELSE setNodeDynamicRange(k, node)
                               : k \in setNodeAddresses(j, Flatten(nodeNetworks)) }
                             : j \in setNodeTaskNetworks(g, taskNetworks) }
                : g \in setNodeGlobal(h, node) }

----------------------------------------------------------------------------
(* AddReserved, AddReservedPorts, AddAllocs                                *)

\* fmt's %v of a []string
RECURSIVE JoinReasons(_)
JoinReasons(r) ==
    IF r = <<>> THEN ""
    ELSE IF Len(r) = 1 THEN r[1]
    ELSE r[1] \o " " \o JoinReasons(Tail(r))

FmtReasons(r) == "[" \o JoinReasons(r) \o "]"

\* addReservedPort without the Set of a free port
addReservedPortNoSet(h, value) ==
    IF value < 0 \/ value >= MaxValidPort
    THEN [h EXCEPT !.c = TRUE, !.r = <<"invalid port " \o ToString(value)>>,
                   !.returned = TRUE]
    ELSE IF BitmapCheck(h.bits[h.cur], value)
    THEN [h EXCEPT !.c = TRUE,
                   !.r = Append(@, "port " \o ToString(value) \o " already in use")]
    ELSE h

\* addReservedPort with the Set ahead of the collision check
addReservedPortSetFirst(h, value) ==
    IF value < 0 \/ value >= MaxValidPort
    THEN [h EXCEPT !.c = TRUE, !.r = <<"invalid port " \o ToString(value)>>,
                   !.returned = TRUE]
    ELSE [h EXCEPT !.bits[h.cur] = BitmapSet(@, value),
                   !.c = TRUE,
                   !.r = Append(@, "port " \o ToString(value) \o " already in use")]

\* addReservedPort that goes on after a port out of range
addReservedPortGoesOn(h, value) ==
    IF value < 0 \/ value >= MaxValidPort
    THEN [h EXCEPT !.c = TRUE, !.r = <<"invalid port " \o ToString(value)>>]
    ELSE IF BitmapCheck(h.bits[h.cur], value)
    THEN [h EXCEPT !.c = TRUE,
                   !.r = Append(@, "port " \o ToString(value) \o " already in use")]
    ELSE [h EXCEPT !.bits[h.cur] = BitmapSet(@, value)]

\* one port of an AddReserved* call against the bitmap h.cur: the range guard,
\* then the collision check, then the Set
addReservedPort(h, value) ==
    IF value < 0 \/ value >= MaxValidPort
    THEN [h EXCEPT !.c = TRUE, !.r = <<"invalid port " \o ToString(value)>>,
                   !.returned = TRUE]
    ELSE IF BitmapCheck(h.bits[h.cur], value)
    THEN [h EXCEPT !.c = TRUE,
                   !.r = Append(@, "port " \o ToString(value) \o " already in use")]
    ELSE [h EXCEPT !.bits[h.cur] = BitmapSet(@, value)]

RECURSIVE addReservedLoop(_, _)
addReservedLoop(h, ports) ==
    IF ports = <<>> \/ h.returned THEN h
    ELSE addReservedLoop(addReservedPort(h, Head(ports).Value), Tail(ports))

\* the possible outcomes of idx.AddReserved(n)
AddReserved(h, n) ==
    { LET g1 == addReservedLoop([g EXCEPT !.c = FALSE, !.r = <<>>, !.returned = FALSE],
                                n.ReservedPorts \o n.DynamicPorts)
      IN  IF g1.returned THEN g1
          ELSE [g1 EXCEPT !.ix.UsedBandwidth =
                    MapPut(@, n.Device, MapInt(@, n.Device) + n.MBits)]
      : g \in getUsedPortsFor(h, n.IP) }

RECURSIVE addReservedPortsLoop(_, _)
addReservedPortsLoop(h, ports) ==
    IF ports = <<>> \/ h.returned THEN {h}
    ELSE UNION { addReservedPortsLoop(addReservedPort(g, Head(ports).Value), Tail(ports))
                 : g \in getUsedPortsFor(h, Head(ports).HostIP) }

\* the possible outcomes of idx.AddReservedPorts(ports)
AddReservedPorts(h, ports) ==
    addReservedPortsLoop([h EXCEPT !.c = FALSE, !.r = <<>>, !.returned = FALSE], ports)

\* one port of AddReservedPortsForIP: the port is a uint64, so the range
\* guard has an upper side only
addReservedPortForIP(h, port) ==
    IF port >= MaxValidPort
    THEN [h EXCEPT !.c = TRUE, !.r = <<"invalid port " \o ToString(port)>>,
                   !.returned = TRUE]
    ELSE IF BitmapCheck(h.bits[h.cur], port)
    THEN [h EXCEPT !.c = TRUE,
                   !.r = Append(@, "port " \o ToString(port) \o " already in use")]
    ELSE [h EXCEPT !.bits[h.cur] = BitmapSet(@, port)]

RECURSIVE addReservedPortsForIPLoop(_, _)
addReservedPortsForIPLoop(h, ports) ==
    IF ports = <<>> \/ h.returned THEN h
    ELSE addReservedPortsForIPLoop(addReservedPortForIP(h, Head(ports)), Tail(ports))

\* the possible outcomes of idx.AddReservedPortsForIP(ports, ip)
AddReservedPortsForIP(h, ports, ip) ==
    { addReservedPortsForIPLoop([g EXCEPT !.c = FALSE, !.r = <<>>, !.returned = FALSE],
                                ports)
      : g \in getUsedPortsFor(h, ip) }

\* noteCollision that keeps the reason of the first collision
noteCollisionFirst(g, reason) ==
    IF g.c
    THEN [g EXCEPT !.collide = TRUE,
                   !.reason = IF g.collide THEN @ ELSE reason \o FmtReasons(g.r)]
    ELSE g

\* AddAllocs records the reason of a colliding callee
noteCollision(g, reason) ==
    IF g.c THEN [g EXCEPT !.collide = TRUE, !.reason = reason \o FmtReasons(g.r)]
    ELSE g

\* the loop over Shared.Networks
RECURSIVE addSharedNetworks(_, _, _)
addSharedNetworks(h, alloc, nets) ==
    IF nets = <<>> THEN {h}
    ELSE LET n == Head(nets) IN
         UNION { addSharedNetworks(
                    noteCollision(g, "collision when reserving port for network " \o n.IP
                                     \o " in alloc " \o alloc.ID \o ": "),
                    alloc, Tail(nets))
                 : g \in AddReserved(h, n) }

\* the range over a map of tasks, in any order: the first network of each task
RECURSIVE addTaskNetworks(_, _, _, _, _)
addTaskNetworks(h, alloc, tasks, todo, prefix) ==
    IF todo = {} THEN {h}
    ELSE UNION { LET t == tasks[k] IN
                 IF Len(t.Networks) = 0
                 THEN addTaskNetworks(h, alloc, tasks, todo \ {k}, prefix)
                 ELSE LET n == t.Networks[1] IN
                      UNION { addTaskNetworks(
                                 noteCollision(g, prefix \o n.IP \o " in task " \o t.Name
                                                  \o " of alloc " \o alloc.ID \o ": "),
                                 alloc, tasks, todo \ {k}, prefix)
                              : g \in AddReserved(h, n) }
                 : k \in todo }

\* addAlloc without the look at the terminal status
addAllocTerminalToo(h, alloc) ==
    IF ~alloc.AllocatedResources.isNil
    THEN IF Len(alloc.AllocatedResources.Shared.Ports) > 0
         THEN { noteCollision(g, "collision when reserving port for alloc "
                                  \o alloc.ID \o ": ")
                : g \in AddReservedPorts(h, alloc.AllocatedResources.Shared.Ports) }
         ELSE UNION { addTaskNetworks(g, alloc, alloc.AllocatedResources.Tasks,
                                      DOMAIN alloc.AllocatedResources.Tasks,
                                      "collision when reserving port for network ")
                      : g \in addSharedNetworks(h, alloc,
                                                alloc.AllocatedResources.Shared.Networks) }
    ELSE addTaskNetworks(h, alloc, alloc.TaskResources, DOMAIN alloc.TaskResources,
                         "(deprecated) collision when reserving port for network ")

\* addAlloc that goes on to the networks after Shared.Ports
addAllocEverySource(h, alloc) ==
    IF alloc.Terminal THEN {h}
    ELSE IF ~alloc.AllocatedResources.isNil
    THEN UNION {
           UNION { addTaskNetworks(g, alloc, alloc.AllocatedResources.Tasks,
                                   DOMAIN alloc.AllocatedResources.Tasks,
                                   "collision when reserving port for network ")
                   : g \in addSharedNetworks(k, alloc,
                                             alloc.AllocatedResources.Shared.Networks) }
           : k \in { noteCollision(g, "collision when reserving port for alloc "
                                      \o alloc.ID \o ": ")
                     : g \in AddReservedPorts(h, alloc.AllocatedResources.Shared.Ports) } }
    ELSE addTaskNetworks(h, alloc, alloc.TaskResources, DOMAIN alloc.TaskResources,
                         "(deprecated) collision when reserving port for network ")

\* one allocation of AddAllocs
addAlloc(h, alloc) ==
    IF alloc.Terminal THEN {h}
    ELSE IF ~alloc.AllocatedResources.isNil
    THEN IF Len(alloc.AllocatedResources.Shared.Ports) > 0
         THEN { noteCollision(g, "collision when reserving port for alloc "
                                  \o alloc.ID \o ": ")
                : g \in AddReservedPorts(h, alloc.AllocatedResources.Shared.Ports) }
         ELSE UNION { addTaskNetworks(g, alloc, alloc.AllocatedResources.Tasks,
                                      DOMAIN alloc.AllocatedResources.Tasks,
                                      "collision when reserving port for network ")
                      : g \in addSharedNetworks(h, alloc,
                                                alloc.AllocatedResources.Shared.Networks) }
    ELSE addTaskNetworks(h, alloc, alloc.TaskResources, DOMAIN alloc.TaskResources,
                         "(deprecated) collision when reserving port for network ")

\* the possible outcomes of idx.AddAllocs(allocs)
RECURSIVE AddAllocsOutcomes(_, _)
AddAllocsOutcomes(h, allocs) ==
    IF allocs = <<>> THEN {h}
    ELSE UNION { AddAllocsOutcomes(g, Tail(allocs)) : g \in addAlloc(h, Head(allocs)) }

----------------------------------------------------------------------------
(* Dynamic port selection.  nodeUsed is the set of marked ports of the     *)
(* bitmap handed in (empty for a nil bitmap); the result of a selector is  *)
(* the set of its possible outcomes over the random draws.                 *)

PortValues(ports) == [k \in DOMAIN ports |-> ports[k].Value]

isPortReserved(haystack, needle) == \E k \in DOMAIN haystack : haystack[k] = needle

Swap(s, a, b) == [s EXCEPT ![a] = s[b], ![b] = s[a]]

\* the numDyn swaps of getDynamicPortsPrecise, from position i on
RECURSIVE preciseShuffle(_, _, _)
preciseShuffle(availablePorts, i, numDyn) ==
    IF i > numDyn THEN {SubSeq(availablePorts, 1, numDyn)}
    ELSE UNION { preciseShuffle(Swap(availablePorts, i, j), i + 1, numDyn)
                 : j \in 1..Len(availablePorts) }

\* getDynamicPortsPrecise searching one port beyond maxDynamicPort
getDynamicPortsPreciseBeyondMax(nodeUsed, minDynamicPort, maxDynamicPort, reserved, numDyn) ==
    LET usedSet == nodeUsed \cup Range(PortValues(reserved))
        availablePorts == IndexesInRange(usedSet, FALSE, minDynamicPort, maxDynamicPort + 1)
    IN  IF Len(availablePorts) < numDyn
        THEN {[err |-> "dynamic port selection failed", ports |-> <<>>,
               nodeUsed |-> nodeUsed]}
        ELSE {[err |-> "", ports |-> q, nodeUsed |-> nodeUsed]
              : q \in preciseShuffle(availablePorts, 1, numDyn)}

\* getDynamicPortsPrecise setting the reserved ports on nodeUsed itself
\* instead of on a copy
getDynamicPortsPreciseInPlace(nodeUsed, minDynamicPort, maxDynamicPort, reserved, numDyn) ==
    LET usedSet == nodeUsed \cup Range(PortValues(reserved))
        availablePorts == IndexesInRange(usedSet, FALSE, minDynamicPort, maxDynamicPort)
    IN  IF Len(availablePorts) < numDyn
        THEN {[err |-> "dynamic port selection failed", ports |-> <<>>,
               nodeUsed |-> usedSet]}
        ELSE {[err |-> "", ports |-> q, nodeUsed |-> usedSet]
              : q \in preciseShuffle(availablePorts, 1, numDyn)}

\* The outcomes of getDynamicPortsPrecise: the error, the ports, and what the
\* caller's bitmap nodeUsed holds afterwards (the reserved ports are set on
\* usedSet, a copy).
getDynamicPortsPrecise(nodeUsed, minDynamicPort, maxDynamicPort, reserved, numDyn) ==
    LET usedSet == nodeUsed \cup Range(PortValues(reserved))
        availablePorts == IndexesInRange(usedSet, FALSE, minDynamicPort, maxDynamicPort)
    IN  IF Len(availablePorts) < numDyn
        THEN {[err |-> "dynamic port selection failed", ports |-> <<>>,
               nodeUsed |-> nodeUsed]}
        ELSE {[err |-> "", ports |-> q, nodeUsed |-> nodeUsed]
              : q \in preciseShuffle(availablePorts, 1, numDyn)}

\* The PICK loop for the ports still to choose.  A draw is any port of
\* [min, max); a port is chosen when some draw is accepted, and the call fails
\* when maxRandPortAttempts draws in a row are rejected, which can happen as
\* soon as one port of [min, max) is rejected.  rand.Intn panics on n <= 0.
RECURSIVE stochasticPick(_, _, _, _, _, _)
stochasticPick(nodeUsed, minDynamicPort, maxDynamicPort, reserved, dynamic, count) ==
    IF Len(dynamic) = count THEN {[err |-> "", ports |-> dynamic]}
    ELSE IF maxDynamicPort - minDynamicPort <= 0
    THEN {[err |-> "panic: invalid argument to Intn", ports |-> <<>>]}
    ELSE LET draws == minDynamicPort..(maxDynamicPort - 1)
             rejected(p) == \/ BitmapCheck(nodeUsed, p)
                            \/ isPortReserved(reserved, p)
                            \/ isPortReserved(dynamic, p)
         IN  UNION { stochasticPick(nodeUsed, minDynamicPort, maxDynamicPort, reserved,
                                    Append(dynamic, p), count)
                     : p \in {q \in draws : ~rejected(q)} }
             \cup (IF maxRandPortAttempts >= 1 /\ \E q \in draws : rejected(q)
                   THEN {[err |-> "stochastic dynamic port selection failed",
                          ports |-> <<>>]}
                   ELSE {})

\* the test of one draw without the look at the ports already picked
pickRejectedNoDynamic(nodeUsed, reserved, dynamic, randPort) ==
    \/ BitmapCheck(nodeUsed, randPort)
    \/ isPortReserved(reserved, randPort)

\* the test of one draw: used on the node, a reserved value, or picked before
pickRejected(nodeUsed, reserved, dynamic, randPort) ==
    \/ BitmapCheck(nodeUsed, randPort)
    \/ isPortReserved(reserved, randPort)
    \/ isPortReserved(dynamic, randPort)

\* the attempts test with one more draw allowed
pickExhaustedLate(attempts) == attempts > maxRandPortAttempts + 1

\* the test after attempts++
pickExhausted(attempts) == attempts > maxRandPortAttempts

\* the values of minDynamicPort + rand.Intn(maxDynamicPort - minDynamicPort)
pickDraws(minDynamicPort, maxDynamicPort) == minDynamicPort..(maxDynamicPort - 1)

getDynamicPortsStochastic(nodeUsed, minDynamicPort, maxDynamicPort, reservedPorts, count) ==
    stochasticPick(nodeUsed, minDynamicPort, maxDynamicPort, PortValues(reservedPorts),
                   <<>>, count)

----------------------------------------------------------------------------
(* AssignPorts                                                             *)

\* the mapping of a reserved ask port on addr
offerReserved(h, port, addr) ==
    [h EXCEPT !.offer = Append(@, AllocatedPortMapping(port.Label, port.Value, port.To,
                                                     addr.Address))]

\* assignReservedPort without the check of the port against the bitmap
assignReservedPortUnchecked(h, port) ==
    LET h1 == [h EXCEPT !.reservedIdx =
                  MapPut(@, port.HostNetwork, Append(MapSeq(@, port.HostNetwork), port))]
        addrs == MapSeq(h.ix.HostNetworks, port.HostNetwork)
    IN  IF addrs = <<>>
        THEN {[h1 EXCEPT !.err = "no addresses available for " \o port.HostNetwork
                                 \o " network"]}
        ELSE { IF port.Value < 0 \/ port.Value >= MaxValidPort
               THEN [g EXCEPT !.err = "invalid port " \o ToString(port.Value)
                                      \o " (out of range)"]
               ELSE offerReserved(g, port, addrs[1])
               : g \in getUsedPortsFor(h1, addrs[1].Address) }

\* assignReservedPort looking at the last address of the alias
assignReservedPortLastAddress(h, port) ==
    LET h1 == [h EXCEPT !.reservedIdx =
                  MapPut(@, port.HostNetwork, Append(MapSeq(@, port.HostNetwork), port))]
        addrs == MapSeq(h.ix.HostNetworks, port.HostNetwork)
    IN  IF addrs = <<>>
        THEN {[h1 EXCEPT !.err = "no addresses available for " \o port.HostNetwork
                                 \o " network"]}
        ELSE { IF port.Value < 0 \/ port.Value >= MaxValidPort
               THEN [g EXCEPT !.err = "invalid port " \o ToString(port.Value)
                                      \o " (out of range)"]
               ELSE IF g.cur # Nil /\ BitmapCheck(g.bits[g.cur], port.Value)
               THEN [g EXCEPT !.err = "reserved port collision " \o port.Label \o "="
                                      \o ToString(port.Value)]
               ELSE offerReserved(g, port, addrs[Len(addrs)])
               : g \in getUsedPortsFor(h1, addrs[Len(addrs)].Address) }

\* one reserved ask port: only the first address of the alias is looked at
assignReservedPort(h, port) ==
    LET h1 == [h EXCEPT !.reservedIdx =
                  MapPut(@, port.HostNetwork, Append(MapSeq(@, port.HostNetwork), port))]
        addrs == MapSeq(h.ix.HostNetworks, port.HostNetwork)
    IN  IF addrs = <<>>
        THEN {[h1 EXCEPT !.err = "no addresses available for " \o port.HostNetwork
                                 \o " network"]}
        ELSE { IF port.Value < 0 \/ port.Value >= MaxValidPort
               THEN [g EXCEPT !.err = "invalid port " \o ToString(port.Value)
                                      \o " (out of range)"]
               ELSE IF g.cur # Nil /\ BitmapCheck(g.bits[g.cur], port.Value)
               THEN [g EXCEPT !.err = "reserved port collision " \o port.Label \o "="
                                      \o ToString(port.Value)]
               ELSE offerReserved(g, port, addrs[1])
               : g \in getUsedPortsFor(h1, addrs[1].Address) }

\* the mapping of a dynamic ask port that also marks the port as used
offerDynamicMarking(h, port, value, addr) ==
    [h EXCEPT !.offer = Append(@, AllocatedPortMapping(port.Label, value,
                                    IF port.To = -1 THEN value ELSE port.To, addr.Address)),
              !.bits[h.cur] = BitmapSet(@, value)]

\* the mapping of a dynamic ask port without the rewrite of to = -1
offerDynamicNoRewrite(h, port, value, addr) ==
    [h EXCEPT !.offer = Append(@, AllocatedPortMapping(port.Label, value, port.To,
                                                     addr.Address))]

\* the mapping of a dynamic ask port on addr: to = -1 becomes the value
offerDynamic(h, port, value, addr) ==
    [h EXCEPT !.offer = Append(@, AllocatedPortMapping(port.Label, value,
                                    IF port.To = -1 THEN value ELSE port.To, addr.Address))]

\* assignDynamicPort without the fallback to the precise selector
RECURSIVE assignDynamicPortNoFallback(_, _, _, _)
assignDynamicPortNoFallback(h, port, addrs, addrErr) ==
    IF addrs = <<>>
    THEN {[h EXCEPT !.err = IF addrErr # "" THEN addrErr
                            ELSE "no addresses available for " \o port.HostNetwork
                                 \o " network"]}
    ELSE UNION {
        LET used == g.bits[g.cur]
            res == MapSeq(g.reservedIdx, port.HostNetwork)
            sto == getDynamicPortsStochastic(used, g.ix.MinDynamicPort,
                                             g.ix.MaxDynamicPort, res, 1)
        IN  UNION { IF d.err = ""
                    THEN {offerDynamic(g, port, d.ports[1], Head(addrs))}
                    ELSE assignDynamicPortNoFallback(g, port, Tail(addrs), d.err)
                    : d \in sto }
        : g \in getUsedPortsFor(h, Head(addrs).Address) }

\* assignDynamicPort that forgets the error of the last address
RECURSIVE assignDynamicPortNoAddrErr(_, _, _, _)
assignDynamicPortNoAddrErr(h, port, addrs, addrErr) ==
    IF addrs = <<>>
    THEN {[h EXCEPT !.err = "no addresses available for " \o port.HostNetwork
                            \o " network"]}
    ELSE UNION {
        LET used == g.bits[g.cur]
            res == MapSeq(g.reservedIdx, port.HostNetwork)
            sto == getDynamicPortsStochastic(used, g.ix.MinDynamicPort,
                                             g.ix.MaxDynamicPort, res, 1)
            pre == getDynamicPortsPrecise(used, g.ix.MinDynamicPort,
                                          g.ix.MaxDynamicPort, res, 1)
        IN  {offerDynamic(g, port, d.ports[1], Head(addrs)) : d \in {e \in sto : e.err = ""}}
            \cup (IF \E d \in sto : d.err # ""
                  THEN UNION { IF d.err = ""
                               THEN {offerDynamic(g, port, d.ports[1], Head(addrs))}
                               ELSE assignDynamicPortNoAddrErr(g, port, Tail(addrs), d.err)
                               : d \in pre }
                  ELSE {})
        : g \in getUsedPortsFor(h, Head(addrs).Address) }

\* one dynamic ask port over the addresses of its alias still to try;
\* addrErr is the error of the address tried last
RECURSIVE assignDynamicPort(_, _, _, _)
assignDynamicPort(h, port, addrs, addrErr) ==
    IF addrs = <<>>
    THEN {[h EXCEPT !.err = IF addrErr # "" THEN addrErr
                            ELSE "no addresses available for " \o port.HostNetwork
                                 \o " network"]}
    ELSE UNION {
        LET used == g.bits[g.cur]
            res == MapSeq(g.reservedIdx, port.HostNetwork)
            sto == getDynamicPortsStochastic(used, g.ix.MinDynamicPort,
                                             g.ix.MaxDynamicPort, res, 1)
            pre == getDynamicPortsPrecise(used, g.ix.MinDynamicPort,
                                          g.ix.MaxDynamicPort, res, 1)
            panics == {d \in sto : d.err \notin {"", "stochastic dynamic port selection failed"}}
        IN  {offerDynamic(g, port, d.ports[1], Head(addrs)) : d \in {e \in sto : e.err = ""}}
            \cup {[g EXCEPT !.err = d.err] : d \in panics}
            \cup (IF \E d \in sto : d.err = "stochastic dynamic port selection failed"
                  THEN UNION { LET k == [g EXCEPT !.bits[g.cur] = d.nodeUsed] IN
                               IF d.err = ""
                               THEN {offerDynamic(k, port, d.ports[1], Head(addrs))}
                               ELSE assignDynamicPort(k, port, Tail(addrs), d.err)
                               : d \in pre }
                  ELSE {})
        : g \in getUsedPortsFor(h, Head(addrs).Address) }

RECURSIVE assignReservedPorts(_, _)
assignReservedPorts(h, ports) ==
    IF ports = <<>> \/ h.err # "" THEN {h}
    ELSE UNION { assignReservedPorts(g, Tail(ports))
                 : g \in assignReservedPort(h, Head(ports)) }

RECURSIVE assignDynamicPorts(_, _)
assignDynamicPorts(h, ports) ==
    IF ports = <<>> \/ h.err # "" THEN {h}
    ELSE UNION { assignDynamicPorts(g, Tail(ports))
                 : g \in assignDynamicPort(h, Head(ports),
                                           MapSeq(h.ix.HostNetworks, Head(ports).HostNetwork),
                                           "") }

\* the possible outcomes of idx.AssignPorts(ask); an error returns a nil offer
AssignPortsOutcomes(h, ask) ==
    { IF g.err # "" THEN [g EXCEPT !.offer = <<>>] ELSE g
      : g \in UNION { assignDynamicPorts(k, ask.DynamicPorts)
                      : k \in assignReservedPorts(h, ask.ReservedPorts) } }

----------------------------------------------------------------------------
(* AssignTaskNetwork, yieldIP and incIP.  An address is its sequence of    *)
(* octets, as a net.IP is a byte slice.                                    *)

RECURSIVE Pow2(_)
Pow2(n) == IF n = 0 THEN 1 ELSE 2 * Pow2(n - 1)

\* net.IP.String() of a four-byte address
IPString(ip) ==
    ToString(ip[1]) \o "." \o ToString(ip[2]) \o "." \o ToString(ip[3]) \o "."
    \o ToString(ip[4])

CIDRString(ip, ones) == IPString(ip) \o "/" \o ToString(ones)

\* the addresses that are written in the CIDRs of the task networks
CIDRHosts ==
    { <<10, 0, 0, 1>>, <<10, 0, 0, 2>>, <<10, 0, 0, 0>>, <<10, 0, 255, 254>>,
      <<0, 0, 0, 0>>, <<255, 255, 255, 254>>, <<255, 255, 255, 255>> }

\* net.ParseCIDR(s): the address and the prefix length of an "a.b.c.d/n"
\* string, an error for every other string
ParseCIDR(s) ==
    IF \E ip \in CIDRHosts, ones \in 0..32 : CIDRString(ip, ones) = s
    THEN LET c == CHOOSE c \in CIDRHosts \X (0..32) : CIDRString(c[1], c[2]) = s
         IN  [err |-> "", ip |-> c[1], ones |-> c[2]]
    ELSE [err |-> "invalid CIDR address: " \o s, ip |-> <<>>, ones |-> 0]

\* the number of mask bits that fall into octet j
maskBits(ones, j) ==
    IF ones >= 8 * j THEN 8
    ELSE IF ones <= 8 * (j - 1) THEN 0
    ELSE ones - 8 * (j - 1)

\* ip.Mask(mask) for a mask of ones leading one bits: octet by octet ip & mask
Mask(ip, ones) ==
    [j \in DOMAIN ip |-> ip[j] - (ip[j] % Pow2(8 - maskBits(ones, j)))]

\* ipnet.Contains(ip) for the network of the parsed CIDR c
Contains(c, ip) == Mask(ip, c.ones) = Mask(c.ip, c.ones)

\* incIP: from the last octet to the first, ip[j]++ on a byte, going on to
\* the octet before while the octet wrapped to 0
RECURSIVE incIPFrom(_, _)
incIPFrom(ip, j) ==
    IF j = 0 THEN ip
    ELSE LET v == (ip[j] + 1) % 256
         IN  IF v > 0 THEN [ip EXCEPT ![j] = v]
             ELSE incIPFrom([ip EXCEPT ![j] = 0], j - 1)

incIP(ip) == incIPFrom(ip, Len(ip))

\* the first reserved port of the ask that is out of range or in use, 0 if
\* every one passes
firstBadReserved(ports, used) ==
    LET bad == {k \in DOMAIN ports :
                   \/ ports[k].Value < 0 \/ ports[k].Value >= MaxValidPort
                   \/ BitmapCheck(used, ports[k].Value)}
    IN  IF bad = {} THEN 0 ELSE CHOOSE k \in bad : \A m \in bad : k <= m

\* BUILD_OFFER: the dynamic ports of the offer with the values chosen
buildDynamicPorts(ports, dynPorts) ==
    [k \in DOMAIN ports |->
        [ports[k] EXCEPT !.Value = dynPorts[k],
                         !.To = IF ports[k].To = -1 THEN dynPorts[k] ELSE ports[k].To]]

\* the callback has an offer: offer.DynamicPorts is the slice of the ask, so
\* what BUILD_OFFER writes is written to the ask's ports
taskOffer(r, n, ipStr, dynPorts) ==
    LET dyn == buildDynamicPorts(r.ask.DynamicPorts, dynPorts)
    IN  [stop |-> TRUE,
         r |-> [r EXCEPT !.err = "",
                         !.out = NetworkResource(n.Device, "", ipStr, r.ask.MBits,
                                                 r.ask.ReservedPorts, dyn),
                         !.ask.DynamicPorts = dyn,
                         !.tried = Append(@, ipStr)]]

taskError(r, ipStr, err, stop) ==
    [stop |-> stop, r |-> [r EXCEPT !.err = err, !.tried = Append(@, ipStr)]]

\* the callback with every failed check ending the search
taskCallbackStopsOnError(h, n, ip, r) ==
    LET ipStr == IPString(ip)
        used == IF ipStr \in DOMAIN h.ix.UsedPorts THEN h.bits[h.ix.UsedPorts[ipStr]]
                ELSE {}
        bad == firstBadReserved(r.ask.ReservedPorts, used)
        count == Len(r.ask.DynamicPorts)
        sto == getDynamicPortsStochastic(used, h.ix.MinDynamicPort, h.ix.MaxDynamicPort,
                                         r.ask.ReservedPorts, count)
        pre == getDynamicPortsPrecise(used, h.ix.MinDynamicPort, h.ix.MaxDynamicPort,
                                      r.ask.ReservedPorts, count)
    IN  IF MapInt(h.ix.UsedBandwidth, n.Device) + r.ask.MBits
              > MapInt(h.ix.AvailBandwidth, n.Device)
        THEN {taskError(r, ipStr, "bandwidth exceeded", TRUE)}
        ELSE IF bad # 0
        THEN {taskError(r, ipStr, "reserved port collision", TRUE)}
        ELSE {taskOffer(r, n, ipStr, d.ports) : d \in {e \in sto : e.err = ""}}
             \cup {taskError(r, ipStr, d.err, TRUE) : d \in {e \in pre : e.err # ""}}

\* the callback of AssignTaskNetwork for the task network n and the address
\* ip; r holds err and out of the enclosing call, and the ask
taskCallback(h, n, ip, r) ==
    LET ipStr == IPString(ip)
        used == IF ipStr \in DOMAIN h.ix.UsedPorts THEN h.bits[h.ix.UsedPorts[ipStr]]
                ELSE {}
        bad == firstBadReserved(r.ask.ReservedPorts, used)
        count == Len(r.ask.DynamicPorts)
        sto == getDynamicPortsStochastic(used, h.ix.MinDynamicPort, h.ix.MaxDynamicPort,
                                         r.ask.ReservedPorts, count)
        pre == getDynamicPortsPrecise(used, h.ix.MinDynamicPort, h.ix.MaxDynamicPort,
                                      r.ask.ReservedPorts, count)
    IN  IF MapInt(h.ix.UsedBandwidth, n.Device) + r.ask.MBits
              > MapInt(h.ix.AvailBandwidth, n.Device)
        THEN {taskError(r, ipStr, "bandwidth exceeded", FALSE)}
        ELSE IF bad # 0
        THEN LET port == r.ask.ReservedPorts[bad] IN
             IF port.Value < 0 \/ port.Value >= MaxValidPort
             THEN {taskError(r, ipStr, "invalid port " \o ToString(port.Value)
                                       \o " (out of range)", FALSE)}
             ELSE {taskError(r, ipStr, "reserved port collision " \o port.Label \o "="
                                       \o ToString(port.Value), FALSE)}
        ELSE {taskOffer(r, n, ipStr, d.ports) : d \in {e \in sto : e.err = ""}}
             \cup {taskError(r, ipStr, d.err, TRUE)
                    : d \in {e \in sto : e.err \notin
                                {"", "stochastic dynamic port selection failed"}}}
             \cup (IF \E d \in sto : d.err = "stochastic dynamic port selection failed"
                   THEN { IF d.err = "" THEN taskOffer(r, n, ipStr, d.ports)
                          ELSE taskError(r, ipStr, d.err, FALSE)
                          : d \in pre }
                   ELSE {})

\* yieldIP: the task networks in order, a network whose CIDR does not parse
\* skipped; within a network the addresses from ip.Mask(ipnet.Mask) on, by
\* incIP, while ipnet.Contains(ip) and the callback has not stopped
RECURSIVE yieldNetworks(_, _, _)
RECURSIVE yieldAddresses(_, _, _, _, _)
yieldNetworks(h, nets, r) ==
    IF nets = <<>> THEN {r}
    ELSE LET c == ParseCIDR(Head(nets).CIDR)
         IN  IF c.err # "" THEN yieldNetworks(h, Tail(nets), r)
             ELSE yieldAddresses(h, nets, c, Mask(c.ip, c.ones), r)

yieldAddresses(h, nets, c, ip, r) ==
    IF ~Contains(c, ip) THEN yieldNetworks(h, Tail(nets), r)
    ELSE UNION { IF k.stop THEN {k.r} ELSE yieldAddresses(h, nets, c, incIP(ip), k.r)
                 : k \in taskCallback(h, Head(nets), ip, r) }

\* the possible outcomes of idx.AssignTaskNetwork(ask): err, out (nil when
\* there is no offer), the ask as the caller finds it afterwards, and the
\* addresses the callback was called with
AssignTaskNetworkOutcomes(h, ask) ==
    yieldNetworks(h, h.ix.TaskNetworks,
                  [err |-> "no networks available", out |-> NilStruct, ask |-> ask,
                   tried |-> <<>>])

----------------------------------------------------------------------------
(* Release                                                                 *)

\* bitmapPool.Put(b): the pool may drop what it is given
PoolPut(p, b) == IF CopiesIn(b, p) < MaxPoolCopies THEN p (+) SetToBag({b}) ELSE p

\* Put for the bitmap of every ip of ips (the order of a Go map range does
\* not change the resulting bag)
RECURSIVE PoolPutAll(_, _, _)
PoolPutAll(p, usedPorts, ips) ==
    IF ips = {} THEN p
    ELSE LET ip == CHOOSE x \in ips : TRUE
         IN  PoolPutAll(PoolPut(p, usedPorts[ip]), usedPorts, ips \ {ip})

\* bitmapPool.Put(b) for every entry of UsedPorts; the map itself is untouched
ReleaseOutcome(h) ==
    [h EXCEPT !.pool = PoolPutAll(@, h.ix.UsedPorts, DOMAIN h.ix.UsedPorts),
              !.put = Range(h.ix.UsedPorts)]

----------------------------------------------------------------------------
(* Observations                                                            *)

IPs == {IP1, IP2}

\* the marked ports of every IP of Index i, an absent entry being the empty set
MarkedOf(ix, bs) ==
    [ip \in IPs |-> IF ip \in DOMAIN ix.UsedPorts THEN bs[ix.UsedPorts[ip]] ELSE {}]

Marked(i) == MarkedOf(idx[i], bits)

\* everything of Index i but UsedPorts
Frame(i) == [idx[i] EXCEPT !.UsedPorts = EmptyMap]

----------------------------------------------------------------------------
(* The state machine                                                       *)

NoCall ==
    [op |-> "none", i |-> 0, node |-> "", allocs |-> <<>>, ask |-> Ask(<<>>, <<>>),
     err |-> "", collide |-> FALSE, reason |-> "", offer |-> <<>>,
     installs |-> <<>>, put |-> {},
     ports |-> <<>>,         \* the (ip, value) pairs an AddReserved* call was given
     r |-> <<>>,             \* the reasons an AddReserved* call returned
     sel |-> [nodeUsed |-> {}, minDynamicPort |-> 0, maxDynamicPort |-> 0,
              reserved |-> <<>>, numDyn |-> 0,     \* the arguments of a selector
              ports |-> <<>>, usedAfter |-> {}],   \* its ports; nodeUsed afterwards
     \* the locals of getDynamicPortsStochastic: where it is, attempts and
     \* dynamic; all draws made and the rejected draws in a row for one port
     pick |-> [pc |-> "none", attempts |-> 0, dynamic |-> <<>>,
               draws |-> 0, rejects |-> 0],
     \* AssignTaskNetwork: the ask before the call and as the caller finds it
     \* afterwards, the offer, the addresses the callback was called with
     task |-> [ask |-> NilStruct, askAfter |-> NilStruct, out |-> NilStruct,
               tried |-> <<>>],
     \* the locals of yieldIP: where it is, the CIDRs of the task networks
     \* from the current one on, the parsed ipnet, ip, and addresses the
     \* callback was called with in the current CIDR, in the order of the calls
     walk |-> [pc |-> "none", nets |-> <<>>, ones |-> 0, net |-> <<>>, ip |-> <<>>,
               seen |-> <<>>]]

\* NewNetworkIndex
NewNetworkIndex ==
    [TaskNetworks |-> <<>>,
     HostNetworks |-> EmptyMap,
     UsedPorts |-> EmptyMap,
     AvailBandwidth |-> EmptyMap,
     UsedBandwidth |-> EmptyMap,
     MinDynamicPort |-> DefaultMinDynamicPort,
     MaxDynamicPort |-> DefaultMaxDynamicPort]

\* What is remembered of the history of an Index: its place in a SetNode /
\* Release / SetNode round with the snapshot taken after the first SetNode,
\* whether it is between a SetNode and the next Release (inUse), the Index it
\* was copied from (copyOf, 0 for none), and for an Index that has only seen
\* AddReserved* calls without a collision since NewNetworkIndex (clean) the
\* ports those calls were given (resv).
NewCycle == [phase |-> "new", node |-> "", marked |-> [ip \in IPs |-> {}],
             frame |-> NewNetworkIndex,
             inUse |-> FALSE, copyOf |-> 0, clean |-> TRUE,
             resv |-> [ip \in IPs |-> {}]]

\* the history of an Index after a call that is not an AddReserved* call
Touched(c) == [c EXCEPT !.clean = FALSE, !.resv = [ip \in IPs |-> {}]]

Init ==
    /\ idx = [i \in Indexes |-> NewNetworkIndex]
    /\ bits = <<>>
    /\ pool = EmptyBag
    /\ last = NoCall
    /\ cycle = [i \in Indexes |-> NewCycle]
    /\ usedMap = [i \in Indexes |-> i]

\* the lists of an Index and its bandwidth counters stay within the bounds
WithinBounds(ix) ==
    /\ Len(ix.TaskNetworks) <= MaxNets
    /\ \A a \in DOMAIN ix.HostNetworks : Len(ix.HostNetworks[a]) <= MaxNets
    /\ \A d \in DOMAIN ix.UsedBandwidth : ix.UsedBandwidth[d] <= MaxUsedMBits

\* The call on Index i ends with the receiver's fields g.ix.  A Go map is a
\* reference: an entry written to UsedPorts of Index i is an entry of every
\* Index that holds the same map.
Commit(i, g) ==
    /\ WithinBounds(g.ix)
    /\ idx' = [j \in Indexes |->
                 IF j = i THEN g.ix
                 ELSE IF usedMap[j] = usedMap[i]
                 THEN [idx[j] EXCEPT !.UsedPorts = g.ix.UsedPorts]
                 ELSE idx[j]]
    /\ bits' = g.bits
    /\ pool' = g.pool
    /\ usedMap' = usedMap

\* An Index describes one node: every SetNode of an Index is given the node
\* of its first SetNode.  cycle[i] remembers the marked ports and the other
\* fields after the first SetNode of a SetNode / Release / SetNode round.
SetNode(i, nodes) ==
    \E node \in nodes : \E g \in SetNodeOutcomes(Ctx(i), node) :
        /\ cycle[i].node \in {"", node.Name}
        /\ Commit(i, g)
        /\ last' = [NoCall EXCEPT !.op = "SetNode", !.i = i, !.node = node.Name,
                                  !.err = g.err, !.installs = g.installs]
        /\ cycle' = [cycle EXCEPT ![i] =
                        IF @.phase = "released" /\ @.node = node.Name
                        THEN [Touched(@) EXCEPT !.phase = "again", !.inUse = TRUE]
                        ELSE [Touched(@) EXCEPT
                                 !.phase = "set", !.node = node.Name,
                                 !.marked = MarkedOf(g.ix, g.bits),
                                 !.frame = [g.ix EXCEPT !.UsedPorts = EmptyMap],
                                 !.inUse = TRUE]]

Release(i) ==
    LET g == ReleaseOutcome(Ctx(i)) IN
    /\ Commit(i, g)
    /\ last' = [NoCall EXCEPT !.op = "Release", !.i = i, !.put = g.put]
    /\ cycle' = [cycle EXCEPT ![i] =
                    IF @.phase \in {"set", "again"}
                    THEN [Touched(@) EXCEPT !.phase = "released", !.inUse = FALSE]
                    ELSE [Touched(@) EXCEPT !.phase = "other", !.inUse = FALSE]]

AddAllocs(i, lists) ==
    \E allocs \in lists : \E g \in AddAllocsOutcomes(Ctx(i), allocs) :
        /\ Commit(i, g)
        /\ last' = [NoCall EXCEPT !.op = "AddAllocs", !.i = i, !.allocs = allocs,
                                  !.collide = g.collide, !.reason = g.reason,
                                  !.installs = g.installs]
        /\ cycle' = [cycle EXCEPT ![i] = [Touched(@) EXCEPT !.phase = "other"]]

AssignPorts(i, asks) ==
    \E ask \in asks : \E g \in AssignPortsOutcomes(Ctx(i), ask) :
        /\ Commit(i, g)
        /\ last' = [NoCall EXCEPT !.op = "AssignPorts", !.i = i, !.ask = ask,
                                  !.err = g.err, !.offer = g.offer,
                                  !.installs = g.installs]
        /\ cycle' = [cycle EXCEPT ![i] = [Touched(@) EXCEPT !.phase = "other"]]

\* One Index used through its whole API, with every input.
Next ==
    \/ SetNode(1, Nodes)
    \/ AddAllocs(1, AllocLists)
    \/ AssignPorts(1, Asks)
    \/ Release(1)

Spec == Init /\ [][Next]_vars

\* Several Indexes, each owned by one placement attempt, whose calls
\* interleave and which share bitmapPool.
PoolNodes == {NodeA}

PoolAllocLists == { <<AllocPorts>> }

NextPool ==
    \E i \in Indexes :
        \/ SetNode(i, PoolNodes)
        \/ AddAllocs(i, PoolAllocLists)
        \/ Release(i)

SpecPool == Init /\ [][NextPool]_vars

\* The end of an AddReserved* call on Index i that was given the (ip, value)
\* pairs `pairs`: the results are recorded, and the history of an Index that
\* is still clean grows by the pairs unless the call reported a collision.
Reserving(i, op, pairs, g) ==
    /\ Commit(i, g)
    /\ last' = [NoCall EXCEPT !.op = op, !.i = i, !.ports = pairs,
                              !.collide = g.c, !.r = g.r, !.installs = g.installs]
    /\ cycle' = [cycle EXCEPT ![i] =
                    LET c == cycle[i] IN
                    IF c.clean /\ ~g.c
                    THEN [c EXCEPT !.phase = "other",
                                   !.resv = [ip \in IPs |->
                                               c.resv[ip] \cup
                                               {pairs[k].value :
                                                  k \in {m \in DOMAIN pairs :
                                                            pairs[m].ip = ip}}]]
                    ELSE [Touched(c) EXCEPT !.phase = "other"]]

PairsOfNet(n) ==
    [k \in DOMAIN (n.ReservedPorts \o n.DynamicPorts) |->
        [ip |-> n.IP, value |-> (n.ReservedPorts \o n.DynamicPorts)[k].Value]]

PairsOfPorts(ports) ==
    [k \in DOMAIN ports |-> [ip |-> ports[k].HostIP, value |-> ports[k].Value]]

PairsOfNumbers(ports, ip) == [k \in DOMAIN ports |-> [ip |-> ip, value |-> ports[k]]]

AddReservedCall(i, nets) ==
    \E n \in nets : \E g \in AddReserved(Ctx(i), n) :
        Reserving(i, "AddReserved", PairsOfNet(n), g)

AddReservedPortsCall(i, lists) ==
    \E ports \in lists : \E g \in AddReservedPorts(Ctx(i), ports) :
        Reserving(i, "AddReservedPorts", PairsOfPorts(ports), g)

AddReservedPortsForIPCall(i, lists, ips) ==
    \E ports \in lists : \E ip \in ips : \E g \in AddReservedPortsForIP(Ctx(i), ports, ip) :
        Reserving(i, "AddReservedPortsForIP", PairsOfNumbers(ports, ip), g)

\* A new Index that is given reservations directly.
NextReserve ==
    \/ AddReservedCall(1, ReservedNets)
    \/ AddReservedPortsCall(1, PortLists)
    \/ AddReservedPortsForIPCall(1, PortNumberLists, IPs)

SpecReserve == Init /\ [][NextReserve]_vars

\* One Index that describes any of the nodes, those with per-address reserved
\* ports and with an out-of-range legacy port included, with allocations that
\* exhaust an address.
NextNode ==
    \/ SetNode(1, AllNodes)
    \/ AddAllocs(1, NodeAllocLists)
    \/ AssignPorts(1, NodeAsks)
    \/ Release(1)

SpecNode == Init /\ [][NextNode]_vars

\* One Index that is given lists of allocations of every layout.
NextAllocs ==
    \/ SetNode(1, PoolNodes)
    \/ AddAllocs(1, ClaimAllocLists)
    \/ Release(1)

SpecAllocs == Init /\ [][NextAllocs]_vars

\* AssignTaskNetwork reads the Index and writes nothing to it
AssignTaskNetwork(i, asks) ==
    \E ask \in asks : \E r \in AssignTaskNetworkOutcomes(Ctx(i), ask) :
        /\ last' = [NoCall EXCEPT !.op = "AssignTaskNetwork", !.i = i, !.err = r.err,
                                  !.task = [ask |-> ask, askAfter |-> r.ask,
                                            out |-> r.out, tried |-> r.tried]]
        /\ UNCHANGED <<idx, bits, pool, cycle, usedMap>>

\* One Index with task networks that is asked for task-level offers.
NextTask ==
    \/ SetNode(1, TaskNodes)
    \/ AddAllocs(1, NodeAllocLists)
    \/ AssignTaskNetwork(1, TaskAsks)
    \/ Release(1)

SpecTask == Init /\ [][NextTask]_vars

\* One Index on nodes with a dynamic range of one or two ports.
NextRange ==
    \/ SetNode(1, RangeNodes)
    \/ AddAllocs(1, RangeAllocLists)
    \/ AssignPorts(1, RangeAsks)
    \/ Release(1)

SpecRange == Init /\ [][NextRange]_vars

\* The precise selector on its own: the arguments are drawn at the start and
\* one call is made with them.
SelPorts == DefaultMinDynamicPort..(DefaultMinDynamicPort + MaxCount + 1)

SelReserved ==
    { <<>>,
      <<Port("r", DefaultMinDynamicPort + 1, 0, "")>>,
      <<Port("r", DefaultMinDynamicPort + 1, 0, ""), Port("s", DefaultMinDynamicPort + 3, 0, "")>>,
      <<Port("r", DefaultMinDynamicPort + 1, 0, ""), Port("s", DefaultMinDynamicPort + 1, 0, "")>> }

SelInputs ==
    { [nodeUsed |-> u, minDynamicPort |-> lo, maxDynamicPort |-> hi,
       reserved |-> r, numDyn |-> n, ports |-> <<>>, usedAfter |-> u]
      : u \in SUBSET SelPorts, lo \in SelPorts, hi \in SelPorts,
        r \in SelReserved, n \in 0..MaxCount }

InitSelect ==
    /\ idx = [i \in Indexes |-> NewNetworkIndex]
    /\ bits = <<>>
    /\ pool = EmptyBag
    /\ cycle = [i \in Indexes |-> NewCycle]
    /\ usedMap = [i \in Indexes |-> i]
    /\ last \in {[NoCall EXCEPT !.op = "arguments", !.sel = a] : a \in SelInputs}

SelectPrecise ==
    /\ last.op = "arguments"
    /\ \E d \in getDynamicPortsPrecise(last.sel.nodeUsed, last.sel.minDynamicPort,
                                        last.sel.maxDynamicPort, last.sel.reserved,
                                        last.sel.numDyn) :
          last' = [last EXCEPT !.op = "getDynamicPortsPrecise", !.err = d.err,
                               !.sel.ports = d.ports, !.sel.usedAfter = d.nodeUsed]
    /\ UNCHANGED <<idx, bits, pool, cycle, usedMap>>

NextSelect == SelectPrecise

SpecSelect == InitSelect /\ [][NextSelect]_vars

\* getDynamicPortsStochastic draw by draw.  The arguments are in last.sel, the
\* locals in last.pick; the function is at PICK until it returns.
PickInputs ==
    { [nodeUsed |-> u, minDynamicPort |-> lo, maxDynamicPort |-> hi,
       reserved |-> r, numDyn |-> n, ports |-> <<>>, usedAfter |-> u]
      : u \in SUBSET {DefaultMinDynamicPort, DefaultMinDynamicPort + 2},
        lo \in {DefaultMinDynamicPort, DefaultMinDynamicPort + 1},
        hi \in {DefaultMinDynamicPort, DefaultMinDynamicPort + 1,
                DefaultMinDynamicPort + MaxCount + 2},
        r \in SelReserved, n \in 0..MaxCount }

InitStochastic ==
    /\ idx = [i \in Indexes |-> NewNetworkIndex]
    /\ bits = <<>>
    /\ pool = EmptyBag
    /\ cycle = [i \in Indexes |-> NewCycle]
    /\ usedMap = [i \in Indexes |-> i]
    /\ last \in {[NoCall EXCEPT !.op = "getDynamicPortsStochastic", !.sel = a,
                                 !.pick.pc = "PICK"] : a \in PickInputs}

PickCount == Len(last.pick.dynamic)

\* for i := 0; i < count; i++ is over: return dynamic, nil
StochasticReturn ==
    /\ last.pick.pc = "PICK"
    /\ PickCount >= last.sel.numDyn
    /\ last' = [last EXCEPT !.pick.pc = "returned", !.sel.ports = last.pick.dynamic]
    /\ UNCHANGED <<idx, bits, pool, cycle, usedMap>>

\* attempts++ passes maxRandPortAttempts: return nil and the error
StochasticFail ==
    /\ last.pick.pc = "PICK"
    /\ PickCount < last.sel.numDyn
    /\ pickExhausted(last.pick.attempts + 1)
    /\ last' = [last EXCEPT !.pick.pc = "returned", !.pick.attempts = @ + 1,
                            !.err = "stochastic dynamic port selection failed"]
    /\ UNCHANGED <<idx, bits, pool, cycle, usedMap>>

\* one pass from PICK: attempts++, one draw, goto PICK when it is rejected,
\* else append and go round the loop (attempts := 0)
StochasticDraw ==
    /\ last.pick.pc = "PICK"
    /\ PickCount < last.sel.numDyn
    /\ ~pickExhausted(last.pick.attempts + 1)
    /\ IF last.sel.maxDynamicPort - last.sel.minDynamicPort <= 0
       THEN last' = [last EXCEPT !.pick.pc = "returned", !.pick.attempts = @ + 1,
                                 !.err = "panic: invalid argument to Intn"]
       ELSE \E randPort \in pickDraws(last.sel.minDynamicPort, last.sel.maxDynamicPort) :
               IF pickRejected(last.sel.nodeUsed, PortValues(last.sel.reserved),
                               last.pick.dynamic, randPort)
               THEN last' = [last EXCEPT !.pick.attempts = @ + 1,
                                         !.pick.draws = @ + 1,
                                         !.pick.rejects = @ + 1]
               ELSE last' = [last EXCEPT !.pick.attempts = 0,
                                         !.pick.draws = @ + 1,
                                         !.pick.rejects = 0,
                                         !.pick.dynamic = Append(@, randPort)]
    /\ UNCHANGED <<idx, bits, pool, cycle, usedMap>>

\* yieldIP, step by step.  The CIDRs of the task networks of the call:
WalkCIDRs ==
    { "10.0.0.2", "10.0.0.1/32", "10.0.0.2/31", "10.0.0.0/23", "10.0.255.254/31",
      "255.255.255.254/31", "0.0.0.0/0", "10.0.0.1/0" }

\* addresses up to which a run of rejecting callbacks is followed in one step
WalkMarks == { <<10, 0, 0, 255>>, <<10, 0, 1, 254>>, <<255, 255, 255, 254>> }

\* ip1 is below ip2 as a 32-bit number: octet by octet from the first
IPLess(ip1, ip2) ==
    \E j \in 1..4 : ip1[j] < ip2[j] /\ \A k \in 1..(j - 1) : ip1[k] = ip2[k]

InitWalk ==
    /\ idx = [i \in Indexes |-> NewNetworkIndex]
    /\ bits = <<>>
    /\ pool = EmptyBag
    /\ cycle = [i \in Indexes |-> NewCycle]
    /\ usedMap = [i \in Indexes |-> i]
    /\ last \in {[NoCall EXCEPT !.op = "yieldIP", !.walk.pc = "range", !.walk.nets = nets]
                  : nets \in {<<a>> : a \in WalkCIDRs}
                             \cup {<<a, b>> : a \in WalkCIDRs, b \in {"10.0.0.1/32"}}}

WalkNet == [err |-> "", ip |-> last.walk.net, ones |-> last.walk.ones]

\* for _, n := range idx.TaskNetworks: ParseCIDR, continue on an error, else
\* ip := ip.Mask(ipnet.Mask); after the last network yieldIP returns
WalkRange ==
    /\ last.walk.pc = "range"
    /\ IF last.walk.nets = <<>>
       THEN last' = [last EXCEPT !.walk.pc = "returned"]
       ELSE LET c == ParseCIDR(Head(last.walk.nets))
            IN  IF c.err # ""
                THEN last' = [last EXCEPT !.walk.nets = Tail(@)]
                ELSE last' = [last EXCEPT !.walk.pc = "test", !.walk.ones = c.ones,
                                          !.walk.net = Mask(c.ip, c.ones),
                                          !.walk.ip = Mask(c.ip, c.ones),
                                          !.walk.seen = <<>>]
    /\ UNCHANGED <<idx, bits, pool, cycle, usedMap>>

\* the loop condition ipnet.Contains(ip): into the body, or on to the next
\* task network
WalkTest ==
    /\ last.walk.pc = "test"
    /\ IF Contains(WalkNet, last.walk.ip)
       THEN last' = [last EXCEPT !.walk.pc = "cb"]
       ELSE last' = [last EXCEPT !.walk.pc = "range", !.walk.nets = Tail(@)]
    /\ UNCHANGED <<idx, bits, pool, cycle, usedMap>>

\* the body: cb(n, ip) returns true and yieldIP returns, or it returns false
\* and incIP(ip) is the next address
WalkCallback ==
    /\ last.walk.pc = "cb"
    /\ Len(last.walk.seen) < MaxCalls
    /\ \E stop \in BOOLEAN :
          IF stop
          THEN last' = [last EXCEPT !.walk.pc = "returned",
                                    !.walk.seen = Append(@, last.walk.ip)]
          ELSE last' = [last EXCEPT !.walk.pc = "test",
                                    !.walk.seen = Append(@, last.walk.ip),
                                    !.walk.ip = incIP(@)]
    /\ UNCHANGED <<idx, bits, pool, cycle, usedMap>>

\* a run of the loop in one step: the callback returns false for ip and for
\* every address after it up to an address to of the same CIDR, which the
\* loop condition has accepted; the addresses between are in the CIDR, as
\* a CIDR is a range of addresses
WalkRun ==
    /\ last.walk.pc = "cb"
    /\ Len(last.walk.seen) < MaxCalls
    /\ \E to \in WalkMarks :
          /\ IPLess(last.walk.ip, to)
          /\ Contains(WalkNet, to)
          /\ last' = [last EXCEPT !.walk.seen = Append(@, last.walk.ip), !.walk.ip = to]
    /\ UNCHANGED <<idx, bits, pool, cycle, usedMap>>

NextWalk == WalkRange \/ WalkTest \/ WalkCallback \/ WalkRun

SpecWalk == InitWalk /\ [][NextWalk]_vars

NextStochastic == StochasticDraw \/ StochasticFail \/ StochasticReturn

SpecStochastic == InitStochastic /\ [][NextStochastic]_vars

\* c = idx.Copy(): the fields of the copy.  The slices and the bandwidth maps
\* are cloned; UsedPorts is a new map of copied bitmaps when the source has
\* entries, and otherwise stays the map of the source that `*c = *idx` put in c.
RECURSIVE CopyBitmaps(_, _, _)
CopyBitmaps(h, usedPorts, ips) ==
    IF ips = {} THEN h
    ELSE LET ip == CHOOSE x \in ips : TRUE
         IN  CopyBitmaps([h EXCEPT !.ix.UsedPorts = MapPut(@, ip, Len(h.bits) + 1),
                                   !.bits = Append(@, h.bits[usedPorts[ip]])],
                         usedPorts, ips \ {ip})

copyAvailAddresses(a) ==
    [k \in {x \in DOMAIN a : Len(a[x]) # 0} |-> a[k]]

CopyOutcome(h) ==
    LET c == [h EXCEPT !.ix.HostNetworks = copyAvailAddresses(@)]
    IN  IF DOMAIN h.ix.UsedPorts # {}
        THEN CopyBitmaps([c EXCEPT !.ix.UsedPorts = EmptyMap],
                         h.ix.UsedPorts, DOMAIN h.ix.UsedPorts)
        ELSE c

\* the identity of a map made by make(): one that no other Index holds
FreshMap(dst) == CHOOSE l \in Indexes : \A k \in Indexes \ {dst} : usedMap[k] # l

\* idx[dst] becomes the object src.Copy() returns
Copy(src, dst) ==
    LET g == CopyOutcome(Ctx(src)) IN
    /\ src # dst
    /\ Len(g.bits) <= MaxBitmaps
    /\ idx' = [idx EXCEPT ![dst] = g.ix]
    /\ bits' = g.bits
    /\ pool' = g.pool
    /\ usedMap' = [usedMap EXCEPT ![dst] = IF DOMAIN idx[src].UsedPorts # {}
                                           THEN FreshMap(dst)
                                           ELSE usedMap[src]]
    /\ last' = [NoCall EXCEPT !.op = "Copy", !.i = src]
    /\ cycle' = [cycle EXCEPT ![dst] = [Touched(cycle[src]) EXCEPT !.phase = "other",
                                                                  !.copyOf = src]]

\* An Index and its copy: SetNode and the intake calls on the original, a
\* copy taken at any moment, and the intake and offer calls on either.
CopyAsks == { Ask(<<>>, <<Port("a", 0, -1, "default")>>) }

CopyPortLists == { <<AllocatedPortMapping("https", 443, 0, IP2)>> }

CopyNets == { NetworkResource("eth0", "", IP1, 0, <<Port("a", 8080, 0, "")>>, <<>>) }

NextCopy ==
    \/ SetNode(1, PoolNodes)
    \/ cycle[2].copyOf = 0 /\ Copy(1, 2)
    \/ \E i \in Indexes :
          /\ i = 1 \/ cycle[i].copyOf # 0
          /\ \/ AddReservedCall(i, CopyNets)
             \/ AddReservedPortsCall(i, CopyPortLists)
             \/ AddAllocs(i, PoolAllocLists)
             \/ AssignPorts(i, CopyAsks)

SpecCopy == Init /\ [][NextCopy]_vars

----------------------------------------------------------------------------
(* Properties                                                              *)

\* the positions of the offer of a successful AssignPorts: the reserved ask
\* ports in order, then the dynamic ask ports in order
Offered == last.op = "AssignPorts" /\ last.err = ""

ReservedPositions == 1..Len(last.ask.ReservedPorts)

DynamicPositions == (Len(last.ask.ReservedPorts) + 1)..Len(last.offer)

AskPort(k) ==
    IF k \in ReservedPositions THEN last.ask.ReservedPorts[k]
    ELSE last.ask.DynamicPorts[k - Len(last.ask.ReservedPorts)]

\* C1: a call of AssignPorts, whether it returns an offer or an error, leaves
\* the set of marked ports of every IP of the Index as it was (an absent
\* UsedPorts entry counting as the empty set).
C1_AssignPortsKeepsUsedPorts ==
    [][\A i \in Indexes :
          (last'.op = "AssignPorts" /\ last'.i = i) => Marked(i)' = Marked(i)]_vars

\* C1 witness: AssignPorts returned an offer with a dynamic port on an Index
\* that has marked ports.
C1_Witness ==
    /\ Offered
    /\ DynamicPositions # {}
    /\ \E ip \in IPs : Marked(last.i)[ip] # {}

\* C2 as stated: every dynamic mapping of an offer has
\* MinDynamicPort <= value < MaxDynamicPort.
C2_DynamicBelowMax ==
    Offered =>
        \A k \in DynamicPositions :
            /\ idx[last.i].MinDynamicPort <= last.offer[k].Value
            /\ last.offer[k].Value < idx[last.i].MaxDynamicPort

\* C2 amended: every dynamic mapping of an offer has
\* MinDynamicPort <= value <= MaxDynamicPort; MaxDynamicPort itself is offered
\* when the precise selector chooses the port.
C2_DynamicWithinRange ==
    Offered =>
        \A k \in DynamicPositions :
            /\ idx[last.i].MinDynamicPort <= last.offer[k].Value
            /\ last.offer[k].Value <= idx[last.i].MaxDynamicPort

\* C2 witness: an offer whose dynamic port is MaxDynamicPort.
C2_Witness ==
    /\ Offered
    /\ \E k \in DynamicPositions : last.offer[k].Value = idx[last.i].MaxDynamicPort

\* C3 as stated: every mapping whose ask port had to = -1, reserved or
\* dynamic, is emitted with to = value.
C3_ToFollowsValue ==
    Offered =>
        \A k \in DOMAIN last.offer :
            AskPort(k).To = -1 => last.offer[k].To = last.offer[k].Value

\* C3 amended: a dynamic mapping whose ask port had to = -1 is emitted with
\* to = value; a reserved mapping carries the to of its ask port unchanged.
C3_DynamicToFollowsValue ==
    Offered =>
        /\ \A k \in DynamicPositions :
               AskPort(k).To = -1 => last.offer[k].To = last.offer[k].Value
        /\ \A k \in ReservedPositions : last.offer[k].To = AskPort(k).To

\* C3 witness: an offer with a reserved and a dynamic mapping whose ask ports
\* both had to = -1.
C3_Witness ==
    /\ Offered
    /\ \E k \in ReservedPositions : AskPort(k).To = -1
    /\ \E k \in DynamicPositions : AskPort(k).To = -1 /\ last.offer[k].To = last.offer[k].Value

\* C4: no two mappings of one offer have the same host IP and value.
C4_OfferPortsDistinct ==
    Offered =>
        \A k, m \in DOMAIN last.offer :
            k # m => <<last.offer[k].HostIP, last.offer[k].Value>>
                     # <<last.offer[m].HostIP, last.offer[m].Value>>

\* C5: after Release returns, UsedPorts of the Index holds no bitmap that the
\* call handed to the pool.
C5_ReleaseClearsUsedPorts ==
    last.op = "Release" => Range(idx[last.i].UsedPorts) \cap last.put = {}

\* C6: no bitmap is a UsedPorts entry of two Indexes at the same time.
C6_NoSharedBitmap ==
    \A i, j \in Indexes :
        i # j => Range(idx[i].UsedPorts) \cap Range(idx[j].UsedPorts) = {}

\* C7: whenever a call creates a UsedPorts entry, the bitmap it installs has
\* every bit clear at that moment, whatever it held when it was released.
C7_InstalledBitmapClear ==
    \A k \in DOMAIN last.installs : last.installs[k].installed = {}

\* C7 witness: an Index installed a pooled bitmap that held marked ports when
\* it was taken from the pool and that another Index had released.
C7_Witness ==
    \E k \in DOMAIN last.installs :
        /\ last.installs[k].fromPool
        /\ last.installs[k].released # {}
        /\ \E j \in Indexes \ {last.i} :
               last.installs[k].bitmap \in Range(idx[j].UsedPorts)

\* C8: SetNode, Release, SetNode with the same node on one Index: after the
\* second SetNode every IP has the marked ports it had after the first.
C8_SetNodeIdempotentUsedPorts ==
    \A i \in Indexes :
        (last.op = "SetNode" /\ last.i = i /\ cycle[i].phase = "again")
            => Marked(i) = cycle[i].marked

\* C9: SetNode, Release, SetNode with the same node on one Index: after the
\* second SetNode TaskNetworks, HostNetworks, AvailBandwidth, UsedBandwidth and
\* the dynamic port range are what they were after the first.
C9_SetNodeIdempotentIndex ==
    \A i \in Indexes :
        (last.op = "SetNode" /\ last.i = i /\ cycle[i].phase = "again")
            => Frame(i) = cycle[i].frame

\* C10: AddAllocs changes nothing of the Index but UsedPorts.
C10_AddAllocsKeepsFrame ==
    [][\A i \in Indexes :
          (last'.op = "AddAllocs" /\ last'.i = i) => Frame(i)' = Frame(i)]_vars

\* the calls that take reservations in or compute an offer
IntakeOps == {"AddReserved", "AddReservedPorts", "AddAllocs", "AssignPorts"}

\* C11: after c = idx.Copy(), whatever idx held (UsedPorts without an entry
\* included), an AddReserved, AddReservedPorts, AddAllocs or AssignPorts on
\* the copy leaves the marked ports of the original as they were, and such a
\* call on the original leaves the marked ports of the copy as they were.
C11_CopyIsIndependent ==
    [][\A c \in Indexes :
          (cycle[c].copyOf # 0 /\ last'.op \in IntakeOps)
            => /\ last'.i = c => Marked(cycle[c].copyOf)' = Marked(cycle[c].copyOf)
               /\ last'.i = cycle[c].copyOf => Marked(c)' = Marked(c)]_vars

ReserveOps == {"AddReserved", "AddReservedPorts", "AddReservedPortsForIP"}

\* C12: on an Index that started with empty UsedPorts and has since been
\* given only AddReserved, AddReservedPorts and AddReservedPortsForIP calls,
\* none of which reported a collision, a port is marked for an IP exactly
\* when one of the calls reserved it for that IP.
C12_MarkedIffReserved ==
    \A i \in Indexes : cycle[i].clean => Marked(i) = cycle[i].resv

\* C12 witness: after several such calls, the last one an AddReserved, two
\* ports are reserved and marked on each IP.
C12_Witness ==
    /\ last.op = "AddReserved"
    /\ cycle[last.i].clean
    /\ \A ip \in IPs : /\ Cardinality(cycle[last.i].resv[ip]) >= 2
                        /\ Marked(last.i)[ip] = cycle[last.i].resv[ip]

\* the calls that write to UsedPorts or read it for an offer
MutatingOps == ReserveOps \cup {"SetNode", "AddAllocs", "AssignPorts"}

\* C13: between a SetNode of an Index and its next Release, no call other
\* than Release turns a marked port of one of its IPs into an unmarked one.
C13_NoPortUnmarked ==
    [][\A i \in Indexes :
          (cycle[i].inUse /\ last'.op \in MutatingOps)
            => \A ip \in IPs : Marked(i)[ip] \subseteq Marked(i)'[ip]]_vars

\* the ports of the last AddReserved* call are all in range
AllInRange(pairs) ==
    \A k \in DOMAIN pairs : pairs[k].value >= 0 /\ pairs[k].value < MaxValidPort

\* the positions of pairs whose port is already marked on its IP when its
\* turn comes: marked before the call, or given earlier in the same list
Colliding(pairs, before) ==
    {k \in DOMAIN pairs :
        \/ pairs[k].value \in before[pairs[k].ip]
        \/ \E m \in 1..(k - 1) : pairs[m] = pairs[k]}

\* one reason "port N already in use" for each colliding position, in order
CollisionReasons(pairs, before) ==
    LET ks == SetToSortedSeq(Colliding(pairs, before))
    IN  [n \in DOMAIN ks |-> "port " \o ToString(pairs[ks[n]].value) \o " already in use"]

\* C14: an AddReserved, AddReservedPorts or AddReservedPortsForIP call whose
\* ports are all in range returns one reason "port N already in use" for each
\* port that was already marked on its IP when its turn came (by an earlier
\* call or earlier in the list), in order, and no other reason; collide is
\* true exactly when there is such a port; afterwards every port that was
\* marked is still marked and every port of the call is marked on its IP.
C14_CollisionDiscipline ==
    [][\A i \in Indexes :
          (last'.op \in ReserveOps /\ last'.i = i /\ AllInRange(last'.ports))
            => /\ last'.r = CollisionReasons(last'.ports, Marked(i))
               /\ last'.collide = (Colliding(last'.ports, Marked(i)) # {})
               /\ (~last'.collide /\ last'.r = <<>>)
                     = (Colliding(last'.ports, Marked(i)) = {})
               /\ \A ip \in IPs :
                     Marked(i)'[ip] =
                        Marked(i)[ip] \cup
                        {last'.ports[k].value :
                            k \in {m \in DOMAIN last'.ports : last'.ports[m].ip = ip}}]_vars

\* C14 witness: an AddReservedPorts call of two in-range ports returned
\* collide with exactly one reason, and both ports are marked.
C14_Witness ==
    /\ last.op = "AddReservedPorts"
    /\ AllInRange(last.ports)
    /\ Len(last.ports) = 2
    /\ last.collide
    /\ Len(last.r) = 1
    /\ \A k \in DOMAIN last.ports : last.ports[k].value \in Marked(last.i)[last.ports[k].ip]

\* the node has ReservedHostPorts
UsesReservedHostPorts(node) ==
    ~node.ReservedResources.isNil /\ node.ReservedResources.ReservedHostPorts # <<>>

\* the node-network addresses of the node, each Address listed once
NodeAddresses(node) == Flatten(node.NodeResources.NodeNetworks)

EachAddressOnce(node) ==
    \A k, m \in DOMAIN NodeAddresses(node) :
        k # m => NodeAddresses(node)[k].Address # NodeAddresses(node)[m].Address

\* the global reserved ports united with the reserved ports of address a
MergedPorts(node, a) ==
    Range(ParsePortRanges(node.ReservedResources.ReservedHostPorts).ports)
        \cup Range(ParsePortRanges(a.ReservedPorts).ports)

\* C15: a SetNode that succeeds on an Index whose UsedPorts is empty, for a
\* node that has ReservedHostPorts and lists each address once, leaves on
\* every node-network address exactly the global reserved ports united with
\* the reserved ports of that address.
C15_ReservedPortsMerge ==
    [][\A i \in Indexes :
          (/\ last'.op = "SetNode" /\ last'.i = i /\ last'.err = ""
           /\ idx[i].UsedPorts = EmptyMap
           /\ UsesReservedHostPorts(NodeNamed(last'.node))
           /\ EachAddressOnce(NodeNamed(last'.node)))
            => \A k \in DOMAIN NodeAddresses(NodeNamed(last'.node)) :
                  LET a == NodeAddresses(NodeNamed(last'.node))[k]
                  IN  Marked(i)'[a.Address] = MergedPorts(NodeNamed(last'.node), a)]_vars

\* C15 witness: SetNode of NodeD created both UsedPorts entries; 10.0.0.1
\* holds global 22 with its own 80, 443, 20000, 20001 and 10.0.0.2 holds 22
\* with its own 1, 2, 3.
C15_Witness ==
    /\ last.op = "SetNode" /\ last.node = "D" /\ last.err = ""
    /\ Len(last.installs) = 2
    /\ Marked(last.i)[IP1] = {22, 80, 443, 20000, 20001}
    /\ Marked(last.i)[IP2] = {1, 2, 3, 22}

\* C20: every marked port of every Index and every value of an offer is at
\* least 0 and below 65536; SetNode never marks port 65536.
C20_PortsInRange ==
    /\ \A i \in Indexes : \A ip \in IPs : \A p \in Marked(i)[ip] :
           p >= 0 /\ p < MaxValidPort
    /\ \A k \in DOMAIN last.offer :
           last.offer[k].Value >= 0 /\ last.offer[k].Value < MaxValidPort

\* the ports of [min, max], both ends included, that are neither marked in
\* nodeUsed nor the value of a reserved port
FreePorts(a) ==
    {p \in a.minDynamicPort..a.maxDynamicPort :
        p \notin a.nodeUsed /\ \A k \in DOMAIN a.reserved : a.reserved[k].Value # p}

\* C16: getDynamicPortsPrecise fails, with "dynamic port selection failed",
\* exactly when fewer than numDyn ports of the inclusive range are free;
\* otherwise every outcome of the swaps is numDyn pairwise distinct free
\* ports of the range; nodeUsed is left as it was.
C16_PreciseIsExact ==
    last.op = "getDynamicPortsPrecise" =>
        /\ last.err \in {"", "dynamic port selection failed"}
        /\ (last.err # "") = (Cardinality(FreePorts(last.sel)) < last.sel.numDyn)
        /\ last.err = "" =>
              /\ Len(last.sel.ports) = last.sel.numDyn
              /\ \A k, m \in DOMAIN last.sel.ports :
                    k # m => last.sel.ports[k] # last.sel.ports[m]
              /\ \A k \in DOMAIN last.sel.ports : last.sel.ports[k] \in FreePorts(last.sel)
        /\ last.sel.usedAfter = last.sel.nodeUsed

\* C16 witness: min 20000, max 20002, 20000 used, 20001 reserved, one port
\* asked: the call returned [20002].
C16_Witness ==
    /\ last.op = "getDynamicPortsPrecise"
    /\ last.sel.minDynamicPort = 20000 /\ last.sel.maxDynamicPort = 20002
    /\ last.sel.nodeUsed = {20000}
    /\ PortValues(last.sel.reserved) = <<20001>>
    /\ last.sel.numDyn = 1
    /\ last.err = "" /\ last.sel.ports = <<20002>>

\* the addresses SetNode has listed for a host network alias
AddrsOf(i, alias) == MapSeq(idx[i].HostNetworks, alias)

\* reservedIdx[alias]: the reserved ports of the ask on that alias
ReservedFor(ask, alias) ==
    LET OnAlias(p) == p.HostNetwork = alias IN SelectSeq(ask.ReservedPorts, OnAlias)

\* the precise selector fails for one port on the address, given the marked
\* ports of the address and the reserved ports of the ask on the alias
PreciseFails(i, ask, alias, addr) ==
    \A d \in getDynamicPortsPrecise(Marked(i)[addr.Address], idx[i].MinDynamicPort,
                                     idx[i].MaxDynamicPort, ReservedFor(ask, alias), 1) :
        d.err # ""

\* no address of the alias of the dynamic ask port yields a port
NoYield(i, ask, port) ==
    \A n \in DOMAIN AddrsOf(i, port.HostNetwork) :
        PreciseFails(i, ask, port.HostNetwork, AddrsOf(i, port.HostNetwork)[n])

\* every reserved port of the ask passes: its alias has an address, the
\* value is in range and not marked on the first address
ReservedAccepted(i, ask) ==
    \A k \in DOMAIN ask.ReservedPorts :
        LET p == ask.ReservedPorts[k] IN
        /\ AddrsOf(i, p.HostNetwork) # <<>>
        /\ p.Value >= 0 /\ p.Value < MaxValidPort
        /\ p.Value \notin Marked(i)[AddrsOf(i, p.HostNetwork)[1].Address]

\* the dynamic ask ports, by position, for which no address yields a port
FailingDynamic(i, ask) ==
    {k \in DOMAIN ask.DynamicPorts : NoYield(i, ask, ask.DynamicPorts[k])}

FirstOf(S) == CHOOSE k \in S : \A m \in S : k <= m

\* C17: an AssignPorts whose reserved ports pass fails only if, for some
\* dynamic ask port, the precise selector fails on every address of the
\* alias (or the alias has none): a failed stochastic draw alone is never an
\* error.  In an offer every dynamic port sits on the first address of its
\* alias, in HostNetworks order, on which the precise selector does not fail.
C17_PreciseFailureOnly ==
    last.op = "AssignPorts" =>
        /\ (last.err # "" /\ ReservedAccepted(last.i, last.ask))
              => FailingDynamic(last.i, last.ask) # {}
        /\ last.err = "" =>
              \A k \in DynamicPositions :
                 LET alias == AskPort(k).HostNetwork
                     addrs == AddrsOf(last.i, alias)
                 IN  \E n \in DOMAIN addrs :
                        /\ addrs[n].Address = last.offer[k].HostIP
                        /\ ~PreciseFails(last.i, last.ask, alias, addrs[n])
                        /\ \A j \in 1..(n - 1) :
                              PreciseFails(last.i, last.ask, alias, addrs[j])

\* C17 witness: an offer whose dynamic port sits on the second address of
\* its alias because no port is left on the first.
C17_Witness ==
    /\ Offered
    /\ \E k \in DynamicPositions :
          LET alias == AskPort(k).HostNetwork
              addrs == AddrsOf(last.i, alias)
          IN  /\ Len(addrs) >= 2
              /\ last.offer[k].HostIP = addrs[2].Address
              /\ addrs[1].Address # addrs[2].Address
              /\ PreciseFails(last.i, last.ask, alias, addrs[1])

\* C18 as stated: when the reserved ports pass and no address of the alias
\* of a dynamic ask port yields a port, the error is "no addresses available
\* for <alias> network", whether or not the alias has addresses.
C18_NoAddressesError ==
    (/\ last.op = "AssignPorts"
     /\ ReservedAccepted(last.i, last.ask)
     /\ FailingDynamic(last.i, last.ask) # {})
      => last.err = "no addresses available for "
                    \o last.ask.DynamicPorts[FirstOf(FailingDynamic(last.i, last.ask))].HostNetwork
                    \o " network"

\* C18 amended: in that situation the call fails, with "no addresses
\* available for <alias> network" when the alias has no address, and with
\* the error of the last address tried, "dynamic port selection failed",
\* when the alias has addresses and selection fails on every one of them.
C18_NoYieldErrors ==
    (/\ last.op = "AssignPorts"
     /\ ReservedAccepted(last.i, last.ask)
     /\ FailingDynamic(last.i, last.ask) # {})
      => LET port == last.ask.DynamicPorts[FirstOf(FailingDynamic(last.i, last.ask))]
         IN  last.err = IF AddrsOf(last.i, port.HostNetwork) = <<>>
                        THEN "no addresses available for " \o port.HostNetwork \o " network"
                        ELSE "dynamic port selection failed"

\* C18 witness: a dynamic port on an alias with two addresses, both without
\* a free port: the call failed with "dynamic port selection failed".
C18_Witness ==
    /\ last.op = "AssignPorts"
    /\ ReservedAccepted(last.i, last.ask)
    /\ \E k \in FailingDynamic(last.i, last.ask) :
          LET addrs == AddrsOf(last.i, last.ask.DynamicPorts[k].HostNetwork)
          IN  Len(addrs) >= 2 /\ addrs[1].Address # addrs[2].Address
    /\ last.err = "dynamic port selection failed"

\* the values of the reserved ports the ask places on the address (a
\* reserved port is placed on the first address of its alias)
ReservedOnAddress(i, ask, address) ==
    {ask.ReservedPorts[m].Value :
        m \in {n \in DOMAIN ask.ReservedPorts :
                 /\ AddrsOf(i, ask.ReservedPorts[n].HostNetwork) # <<>>
                 /\ AddrsOf(i, ask.ReservedPorts[n].HostNetwork)[1].Address = address}}

\* the alias has one address and every port of the dynamic range is marked
\* on it or is a reserved port of the ask on it
Exhausted(i, ask, alias) ==
    /\ AddrsOf(i, alias) # <<>>
    /\ \A n \in DOMAIN AddrsOf(i, alias) :
          AddrsOf(i, alias)[n].Address = AddrsOf(i, alias)[1].Address
    /\ \A p \in idx[i].MinDynamicPort..idx[i].MaxDynamicPort :
          \/ p \in Marked(i)[AddrsOf(i, alias)[1].Address]
          \/ p \in ReservedOnAddress(i, ask, AddrsOf(i, alias)[1].Address)

\* C19: an AssignPorts whose reserved ports pass and that asks for a dynamic
\* port on an alias with a single address, every port of the dynamic range
\* being marked on that address or a reserved port of the same ask, fails with
\* "dynamic port selection failed".
C19_DynamicExhaustion ==
    (/\ last.op = "AssignPorts"
     /\ ReservedAccepted(last.i, last.ask)
     /\ \E k \in DOMAIN last.ask.DynamicPorts :
           Exhausted(last.i, last.ask, last.ask.DynamicPorts[k].HostNetwork))
      => last.err = "dynamic port selection failed"

\* the reserved ask port passes: its alias has an address, the value is in
\* range and not marked on the first address
ReservedPasses(i, p) ==
    /\ AddrsOf(i, p.HostNetwork) # <<>>
    /\ p.Value >= 0 /\ p.Value < MaxValidPort
    /\ p.Value \notin Marked(i)[AddrsOf(i, p.HostNetwork)[1].Address]

\* the reserved ask port is marked on the address it is checked against
ReservedCollides(i, p) ==
    /\ AddrsOf(i, p.HostNetwork) # <<>>
    /\ p.Value >= 0 /\ p.Value < MaxValidPort
    /\ p.Value \in Marked(i)[AddrsOf(i, p.HostNetwork)[1].Address]

CollisionError(p) == "reserved port collision " \o p.Label \o "=" \o ToString(p.Value)

\* C21: no mapping of an offer, reserved or dynamic, has a value that was
\* marked for its host IP when AssignPorts was called; a call with a reserved
\* ask port that is marked on the address it is checked against fails, and it
\* fails with "reserved port collision label=value" of the first such port
\* when the reserved ports before it pass.
C21_OfferedPortsFree ==
    [][\A i \in Indexes :
          (last'.op = "AssignPorts" /\ last'.i = i)
            => /\ \A k \in DOMAIN last'.offer :
                     last'.offer[k].Value \notin Marked(i)[last'.offer[k].HostIP]
               /\ \A k \in DOMAIN last'.ask.ReservedPorts :
                     ReservedCollides(i, last'.ask.ReservedPorts[k])
                       => /\ last'.err # "" /\ last'.offer = <<>>
                          /\ (\A m \in 1..(k - 1) :
                                 ReservedPasses(i, last'.ask.ReservedPorts[m]))
                               => last'.err = CollisionError(last'.ask.ReservedPorts[k])]_vars

\* C21 witness: an offer with two reserved ports and a dynamic port on an
\* address that has marked ports, none of them an offered value.
C21_Witness ==
    /\ Offered
    /\ Len(last.ask.ReservedPorts) = 2
    /\ DynamicPositions # {}
    /\ \A k \in DOMAIN last.offer :
          /\ Marked(last.i)[last.offer[k].HostIP] # {}
          /\ last.offer[k].Value \notin Marked(last.i)[last.offer[k].HostIP]

\* C22: the reserved ask ports are decided on the first address of their
\* alias alone: every reserved mapping of an offer has that address as host
\* IP, and the first reserved port that does not pass, if it is marked on the
\* first address, fails the call with its collision error whatever the later
\* addresses of the alias hold.
C22_ReservedFirstAddress ==
    last.op = "AssignPorts" =>
        /\ last.err = "" =>
              \A k \in ReservedPositions :
                 last.offer[k].HostIP = AddrsOf(last.i, AskPort(k).HostNetwork)[1].Address
        /\ \A k \in DOMAIN last.ask.ReservedPorts :
              (/\ \A m \in 1..(k - 1) : ReservedPasses(last.i, last.ask.ReservedPorts[m])
               /\ ReservedCollides(last.i, last.ask.ReservedPorts[k]))
                => last.err = CollisionError(last.ask.ReservedPorts[k])

\* C22 witness: a reserved port collision on an alias whose second address
\* has the port free.
C22_Witness ==
    /\ last.op = "AssignPorts"
    /\ \E k \in DOMAIN last.ask.ReservedPorts :
          LET p == last.ask.ReservedPorts[k]
              addrs == AddrsOf(last.i, p.HostNetwork)
          IN  /\ last.err = CollisionError(p)
              /\ Len(addrs) >= 2
              /\ addrs[2].Address # addrs[1].Address
              /\ p.Value \in Marked(last.i)[addrs[1].Address]
              /\ p.Value \notin Marked(last.i)[addrs[2].Address]

StochasticReturned == last.op = "getDynamicPortsStochastic" /\ last.pick.pc = "returned"

\* C23: when the stochastic selector returns without error it returns
\* exactly count ports, pairwise distinct, each in [min, max), none marked in
\* used and none a reserved port value; what it returns is an outcome of
\* getDynamicPortsStochastic as AssignPorts uses it.
C23_StochasticIsSound ==
    StochasticReturned =>
        /\ last.err = "" =>
              /\ Len(last.sel.ports) = last.sel.numDyn
              /\ \A a, b \in DOMAIN last.sel.ports :
                    a # b => last.sel.ports[a] # last.sel.ports[b]
              /\ \A a \in DOMAIN last.sel.ports :
                    /\ last.sel.ports[a] >= last.sel.minDynamicPort
                    /\ last.sel.ports[a] < last.sel.maxDynamicPort
                    /\ last.sel.ports[a] \notin last.sel.nodeUsed
                    /\ \A k \in DOMAIN last.sel.reserved :
                          last.sel.reserved[k].Value # last.sel.ports[a]
        /\ [err |-> last.err, ports |-> last.sel.ports]
              \in getDynamicPortsStochastic(last.sel.nodeUsed, last.sel.minDynamicPort,
                                            last.sel.maxDynamicPort, last.sel.reserved,
                                            last.sel.numDyn)

\* C23 witness: two ports returned after rejected draws, with used and
\* reserved ports inside the range.
C23_Witness ==
    /\ StochasticReturned /\ last.err = ""
    /\ Len(last.sel.ports) = 2
    /\ last.pick.draws > 2
    /\ \E p \in last.sel.nodeUsed :
          p >= last.sel.minDynamicPort /\ p < last.sel.maxDynamicPort
    /\ \E k \in DOMAIN last.sel.reserved :
          /\ last.sel.reserved[k].Value >= last.sel.minDynamicPort
          /\ last.sel.reserved[k].Value < last.sel.maxDynamicPort

\* C24: the stochastic selector makes at most maxRandPortAttempts draws for
\* one port and at most maxRandPortAttempts x count draws in all; until it
\* has returned it can take a step; it returns "stochastic dynamic port
\* selection failed" exactly when maxRandPortAttempts draws in a row for one
\* port were rejected.
C24_StochasticIsBounded ==
    last.op = "getDynamicPortsStochastic" =>
        /\ last.pick.rejects <= maxRandPortAttempts
        /\ last.pick.draws <= maxRandPortAttempts * last.sel.numDyn
        /\ last.pick.draws <= maxRandPortAttempts * PickCount + last.pick.rejects
        /\ last.pick.pc = "PICK" => ENABLED NextStochastic
        /\ StochasticReturned =>
              (last.err = "stochastic dynamic port selection failed"
                 <=> last.pick.rejects = maxRandPortAttempts)

\* C24 witness: the selector has failed on its second port after the first
\* took more than one draw.
C24_Witness ==
    /\ StochasticReturned
    /\ last.err = "stochastic dynamic port selection failed"
    /\ PickCount = 1
    /\ last.pick.draws > maxRandPortAttempts + 1

\* C25: with MinDynamicPort <= MaxDynamicPort, the two equal included,
\* AssignPorts ends in an offer or an error and never in the panic of a draw
\* from an empty interval; when the reserved ports of the ask pass and the
\* precise selector finds a port for every dynamic port on an address of its
\* alias, the call succeeds.
C25_DynamicSelectionEnds ==
    (/\ last.op = "AssignPorts"
     /\ idx[last.i].MinDynamicPort <= idx[last.i].MaxDynamicPort)
      => /\ last.err # "panic: invalid argument to Intn"
         /\ (/\ ReservedAccepted(last.i, last.ask)
             /\ FailingDynamic(last.i, last.ask) = {})
              => last.err = ""

\* the allocations of a list that are not terminal
LiveAllocs(allocs) == SelectSeq(allocs, LAMBDA a : ~a.Terminal)

\* C26: an AddAllocs call leaves UsedPorts and UsedBandwidth, and returns
\* collide and reason, as a call with the list without its terminal
\* allocations can.
C26_TerminalSkipped ==
    [][\A i \in Indexes :
          (last'.op = "AddAllocs" /\ last'.i = i)
            => \E g \in AddAllocsOutcomes(Ctx(i), LiveAllocs(last'.allocs)) :
                  /\ g.ix = idx'[i]
                  /\ g.bits = bits'
                  /\ g.collide = last'.collide
                  /\ g.reason = last'.reason]_vars

\* C26 witness: a list with a terminal allocation went through without a
\* collision although one port of the terminal allocation is marked, and its
\* other port is not marked afterwards.
C26_Witness ==
    /\ last.op = "AddAllocs" /\ ~last.collide
    /\ LiveAllocs(last.allocs) # <<>>
    /\ \E k \in DOMAIN last.allocs :
          LET ports == last.allocs[k].AllocatedResources.Shared.Ports
          IN  /\ last.allocs[k].Terminal
              /\ \E a \in DOMAIN ports :
                    ports[a].Value \in Marked(last.i)[ports[a].HostIP]
              /\ \E a \in DOMAIN ports :
                    ports[a].Value \notin Marked(last.i)[ports[a].HostIP]

\* the pairs of a call before its first port out of range: the ones the
\* call gets to
Markable(pairs) ==
    LET bad == {k \in DOMAIN pairs :
                   pairs[k].value < 0 \/ pairs[k].value >= MaxValidPort}
    IN  IF bad = {} THEN pairs ELSE SubSeq(pairs, 1, FirstOf(bad) - 1)

\* one call AddAllocs makes for an allocation: the text its reason starts
\* with and the pairs it hands over
AllocPortsCall(alloc) ==
    [prefix |-> "collision when reserving port for alloc " \o alloc.ID \o ": ",
     pairs |-> PairsOfPorts(alloc.AllocatedResources.Shared.Ports)]

SharedNetworkCall(alloc, n) ==
    [prefix |-> "collision when reserving port for network " \o n.IP \o " in alloc "
                \o alloc.ID \o ": ",
     pairs |-> PairsOfNet(n)]

TaskNetworkCall(alloc, t, prefix) ==
    [prefix |-> prefix \o t.Networks[1].IP \o " in task " \o t.Name \o " of alloc "
                \o alloc.ID \o ": ",
     pairs |-> PairsOfNet(t.Networks[1])]

\* the orders in which a range over a map can visit the keys S
Orders(S) ==
    {o \in [1..Cardinality(S) -> S] : \A a, b \in DOMAIN o : a # b => o[a] # o[b]}

TaskCalls(alloc, tasks, prefix) ==
    { [k \in DOMAIN o |-> TaskNetworkCall(alloc, tasks[o[k]], prefix)]
      : o \in Orders({k \in DOMAIN tasks : Len(tasks[k].Networks) > 0}) }

\* the sequences of calls AddAllocs can make for one allocation
CallsOfAlloc(alloc) ==
    IF alloc.Terminal THEN {<<>>}
    ELSE IF ~alloc.AllocatedResources.isNil
    THEN IF Len(alloc.AllocatedResources.Shared.Ports) > 0
         THEN {<<AllocPortsCall(alloc)>>}
         ELSE { [k \in DOMAIN alloc.AllocatedResources.Shared.Networks |->
                   SharedNetworkCall(alloc, alloc.AllocatedResources.Shared.Networks[k])]
                \o tc
                : tc \in TaskCalls(alloc, alloc.AllocatedResources.Tasks,
                                   "collision when reserving port for network ") }
    ELSE TaskCalls(alloc, alloc.TaskResources,
                   "(deprecated) collision when reserving port for network ")

RECURSIVE CallsOfAllocs(_)
CallsOfAllocs(allocs) ==
    IF allocs = <<>> THEN {<<>>}
    ELSE { c \o d : c \in CallsOfAlloc(Head(allocs)), d \in CallsOfAllocs(Tail(allocs)) }

\* a call reports a collision when it meets a port out of range or a port
\* already marked when its turn comes
CallCollides(call, before) ==
    \/ Markable(call.pairs) # call.pairs
    \/ Colliding(call.pairs, before) # {}

CallReason(call, before) ==
    call.prefix \o
    FmtReasons(IF Markable(call.pairs) # call.pairs
               THEN <<"invalid port "
                      \o ToString(call.pairs[Len(Markable(call.pairs)) + 1].value)>>
               ELSE CollisionReasons(call.pairs, before))

MarkedWith(before, pairs) ==
    [ip \in IPs |-> before[ip] \cup {pairs[k].value :
                                       k \in {m \in DOMAIN pairs : pairs[m].ip = ip}}]

\* the marked ports before call k of a sequence of calls that starts from
\* the marked ports before
RECURSIVE MarkedBefore(_, _, _)
MarkedBefore(calls, k, before) ==
    IF k = 1 THEN before
    ELSE MarkedWith(MarkedBefore(calls, k - 1, before), Markable(calls[k - 1].pairs))

CollidingCalls(calls, before) ==
    {k \in DOMAIN calls : CallCollides(calls[k], MarkedBefore(calls, k, before))}

\* the greatest element of a non-empty set of numbers
LastOf(S) == CHOOSE k \in S : \A m \in S : m <= k

\* every bitmap of UsedPorts of Index i is the entry of one IP and is not in
\* the pool: what getUsedPortsFor and a Release that empties the map keep up
OwnBitmaps(i) ==
    /\ \A ip \in DOMAIN idx[i].UsedPorts :
          idx[i].UsedPorts[ip] \notin BagToSet(pool)
    /\ \A a, b \in DOMAIN idx[i].UsedPorts :
          a # b => idx[i].UsedPorts[a] # idx[i].UsedPorts[b]

FirstNets(tasks) ==
    LET ks == SetToSortedSeq({k \in DOMAIN tasks : Len(tasks[k].Networks) > 0})
    IN  [n \in DOMAIN ks |-> tasks[ks[n]].Networks[1]]

\* the ports of Shared.Ports AddAllocs hands on for an allocation
SourcePorts(alloc) ==
    IF ~alloc.Terminal /\ ~alloc.AllocatedResources.isNil
    THEN alloc.AllocatedResources.Shared.Ports
    ELSE <<>>

\* the networks AddAllocs hands on for an allocation
SourceNets(alloc) ==
    IF alloc.Terminal THEN <<>>
    ELSE IF alloc.AllocatedResources.isNil THEN FirstNets(alloc.TaskResources)
    ELSE IF Len(alloc.AllocatedResources.Shared.Ports) > 0 THEN <<>>
    ELSE alloc.AllocatedResources.Shared.Networks
         \o FirstNets(alloc.AllocatedResources.Tasks)

RECURSIVE SourceNetsOf(_)
SourceNetsOf(allocs) ==
    IF allocs = <<>> THEN <<>>
    ELSE SourceNets(Head(allocs)) \o SourceNetsOf(Tail(allocs))

\* the (ip, value) pairs the source of an allocation gets marked
AllocPairs(alloc) ==
    Range(Markable(PairsOfPorts(SourcePorts(alloc))))
    \cup UNION { Range(Markable(PairsOfNet(SourceNets(alloc)[k])))
                 : k \in DOMAIN SourceNets(alloc) }

\* the MBits of the networks of nets on device whose ports are all in range
RECURSIVE SumMBits(_, _)
SumMBits(nets, device) ==
    IF nets = <<>> THEN 0
    ELSE (IF Head(nets).Device = device /\ AllInRange(PairsOfNet(Head(nets)))
          THEN Head(nets).MBits ELSE 0)
         + SumMBits(Tail(nets), device)

C29_InvalidPortReturns ==
    [][\A i \in Indexes :
          (last'.op \in ReserveOps /\ last'.i = i /\ ~AllInRange(last'.ports))
            => LET done == Markable(last'.ports)
                   bad == last'.ports[Len(done) + 1]
               IN  /\ last'.collide
                   /\ last'.r = <<"invalid port " \o ToString(bad.value)>>
                   /\ Marked(i)' = MarkedWith(Marked(i), done)
                   /\ last'.op = "AddReserved"
                         => idx'[i].UsedBandwidth = idx[i].UsedBandwidth]_vars

\* C29 witness: an AddReserved call returned "invalid port 65536"; the port
\* before it in the list is marked, the port after it is not, and no
\* bandwidth is in use on the device of the network.
C29_Witness ==
    /\ last.op = "AddReserved" /\ last.collide
    /\ last.r = <<"invalid port 65536">>
    /\ Len(last.ports) = 3 /\ last.ports[2].value = 65536
    /\ last.ports[1].value \in Marked(last.i)[last.ports[1].ip]
    /\ last.ports[3].value \notin Marked(last.i)[last.ports[3].ip]
    /\ MapInt(idx[last.i].UsedBandwidth, "eth0") = 0

\* the task networks SetNode reads from the node
TaskNetworksOf(node) ==
    IF ~node.NodeResources.isNil /\ Len(node.NodeResources.Networks) # 0
    THEN node.NodeResources.Networks
    ELSE IF ~node.Resources.isNil THEN node.Resources.Networks
    ELSE <<>>

DeviceNets(node) == SelectSeq(TaskNetworksOf(node), LAMBDA n : n.Device # "")

\* globalResPorts of SetNode as a set
GlobalResPorts(node) ==
    IF UsesReservedHostPorts(node)
    THEN Range(ParsePortRanges(node.ReservedResources.ReservedHostPorts).ports)
    ELSE IF ~node.Reserved.isNil
    THEN UNION { {PairsOfNet(node.Reserved.Networks[k])[m].value
                     : m \in DOMAIN PairsOfNet(node.Reserved.Networks[k])}
                 : k \in DOMAIN node.Reserved.Networks }
    ELSE {}

\* the IPs SetNode asks a bitmap for other than for a task network without
\* a device
TouchedIPs(node) ==
    {DeviceNets(node)[k].IP : k \in DOMAIN DeviceNets(node)}
    \cup (IF node.NodeResources.isNil THEN {}
          ELSE {NodeAddresses(node)[k].Address : k \in DOMAIN NodeAddresses(node)})
    \cup (IF ~UsesReservedHostPorts(node) /\ ~node.Reserved.isNil
          THEN {node.Reserved.Networks[k].IP : k \in DOMAIN node.Reserved.Networks}
          ELSE {})

CidrAddresses(c) ==
    [k \in 1..Pow2(32 - c.ones) |-> [Mask(c.ip, c.ones) EXCEPT ![4] = @ + k - 1]]

\* the candidates of Index i: for each task network in order whose CIDR
\* parses, its addresses in ascending order
RECURSIVE CandidatesOf(_)
CandidatesOf(nets) ==
    IF nets = <<>> THEN <<>>
    ELSE LET c == ParseCIDR(Head(nets).CIDR)
         IN  (IF c.err # "" THEN <<>>
              ELSE [k \in DOMAIN CidrAddresses(c) |->
                      [n |-> Head(nets), ip |-> IPString(CidrAddresses(c)[k])]])
             \o CandidatesOf(Tail(nets))

\* the marked ports of an address of Index i, none when it has no entry
MarkedAt(i, ip) ==
    IF ip \in DOMAIN idx[i].UsedPorts THEN bits[idx[i].UsedPorts[ip]] ELSE {}

\* the candidate passes the bandwidth check, the reserved port check and
\* dynamic selection for the ask
CandidatePasses(i, ask, cand) ==
    /\ MapInt(idx[i].UsedBandwidth, cand.n.Device) + ask.MBits
          <= MapInt(idx[i].AvailBandwidth, cand.n.Device)
    /\ \A k \in DOMAIN ask.ReservedPorts :
          /\ ask.ReservedPorts[k].Value >= 0
          /\ ask.ReservedPorts[k].Value < MaxValidPort
          /\ ask.ReservedPorts[k].Value \notin MarkedAt(i, cand.ip)
    /\ Cardinality({p \in idx[i].MinDynamicPort..idx[i].MaxDynamicPort :
                       /\ p \notin MarkedAt(i, cand.ip)
                       /\ \A k \in DOMAIN ask.ReservedPorts :
                             ask.ReservedPorts[k].Value # p})
          >= Len(ask.DynamicPorts)

\* C31: AssignTaskNetwork calls its checks for the candidates in order, task
\* network by task network and address by address, up to the first one that
\* passes the bandwidth check, the reserved port check and dynamic selection,
\* and returns the offer on that address and device; when no candidate
\* passes it has tried every one and returns an error and no offer, "no
\* networks available" when there is no candidate.
C31_FirstPassingCandidate ==
    last.op = "AssignTaskNetwork" =>
        LET cands == CandidatesOf(idx[last.i].TaskNetworks)
            pass == {k \in DOMAIN cands : CandidatePasses(last.i, last.task.ask, cands[k])}
        IN  IF pass = {}
            THEN /\ last.err # "" /\ last.task.out = NilStruct
                 /\ last.task.tried = [k \in DOMAIN cands |-> cands[k].ip]
                 /\ cands = <<>> => last.err = "no networks available"
            ELSE /\ last.err = ""
                 /\ last.task.out.IP = cands[FirstOf(pass)].ip
                 /\ last.task.out.Device = cands[FirstOf(pass)].n.Device
                 /\ last.task.tried = [k \in 1..FirstOf(pass) |-> cands[k].ip]

\* C31 witness: an offer on the third candidate, the second address of the
\* second task network, after two candidates that failed different checks.
C31_Witness ==
    /\ last.op = "AssignTaskNetwork" /\ last.err = ""
    /\ last.task.tried = <<"10.0.0.1", "10.0.0.2", "10.0.0.3">>
    /\ last.task.out.IP = "10.0.0.3" /\ last.task.out.Device = "eth1"
    /\ MapInt(idx[last.i].AvailBandwidth, "eth0") < last.task.ask.MBits
    /\ 22 \in MarkedAt(last.i, "10.0.0.2")

\* C32: after AssignTaskNetwork, with an offer or with an error, the dynamic
\* ports of the ask have the Value and To fields they had before the call.
C32_AskUnchanged ==
    last.op = "AssignTaskNetwork" =>
        last.task.askAfter.DynamicPorts = last.task.ask.DynamicPorts

\* the part of C32 about the Index: a call of AssignTaskNetwork leaves
\* UsedPorts and the bitmaps in it as they were
AssignTaskNetworkReadsOnly ==
    [][last'.op = "AssignTaskNetwork" => idx' = idx /\ bits' = bits]_vars

\* C33: in yieldIP, the callback is called for the addresses of a CIDR in
\* ascending order from the network address, each address once, for every
\* prefix length, 0 included: an address handed to the callback is above
\* every address handed to it before in the same CIDR, the first of them is
\* the network address, and the walk of a malformed CIDR has no call.
C33_WalkAscendsOnce ==
    (last.op = "yieldIP" /\ last.walk.pc = "cb") =>
        /\ \A k \in DOMAIN last.walk.seen : IPLess(last.walk.seen[k], last.walk.ip)
        /\ last.walk.seen # <<>> => last.walk.seen[1] = last.walk.net
        /\ last.walk.seen = <<>> => last.walk.ip = last.walk.net
        /\ ParseCIDR(Head(last.walk.nets)).err = ""

\* the same for the prefixes of one bit and more, where it holds
WalkAscendsOnceShort ==
    (last.op = "yieldIP" /\ last.walk.pc = "cb" /\ last.walk.ones > 0) =>
        /\ \A k \in DOMAIN last.walk.seen : IPLess(last.walk.seen[k], last.walk.ip)
        /\ last.walk.seen # <<>> => last.walk.seen[1] = last.walk.net
        /\ last.walk.seen = <<>> => last.walk.ip = last.walk.net
        /\ ParseCIDR(Head(last.walk.nets)).err = ""

====
